---- MODULE Spec2Model ----
\* Verification model of wrdata's provider routing and fallback core
\* (wrdata/stream.py, class DataStream) and of its Coinbase streaming provider
\* (wrdata/streaming/coinbase_stream.py, class CoinbaseStreamProvider).
EXTENDS Naturals, Sequences, FiniteSets

VARIABLES
    providers,          \* self.providers: the registry, as its keys in insertion order
    fallback_enabled,   \* self.fallback_enabled
    default_provider,   \* self.default_provider
    pc,                 \* position of the caller: "idle" | "returned" | "raised"
    request,            \* the DataRequest built by get()
    primary,            \* provider_name chosen by _select_provider
    outcome,            \* how each registered provider's fetch_timeseries behaves in this fetch
    calls,              \* fetch_timeseries invocations of this fetch, in order
    response,           \* the DataResponse handed back by _fetch_with_fallback
    exc,                \* the exception that escaped get(), if any
    \* CoinbaseStreamProvider, level-2 order book of one depth subscription
    _orderbooks,        \* self._orderbooks: symbol -> [bids, asks], each price -> size
    depth_symbol,       \* the normalised symbol of the running subscribe_depth, if any
    frames,             \* the frames _stream_channel has handed to subscribe_depth, in order
    prev_orderbooks,    \* self._orderbooks as it was before the last frame
    yielded,            \* the StreamMessages subscribe_depth yielded for the last frame
    caught,             \* whether the last frame ended in the except clause
    depth_of,           \* the normalised symbol of each task's subscribe_depth, if any
    depth_pc,           \* "none", "running" or "cancelled": each task's subscribe_depth
    writers,            \* symbol -> the tasks that have created, reset or written its book
    callbacks,          \* self.callbacks: stream_id -> the callbacks added, in order
    notified,           \* the callbacks _notify_callbacks invoked in the last step
    \* CoinbaseStreamProvider, connections of the subscriptions
    session,            \* self.session
    websocket,          \* self.websocket: the subscription whose socket was stored last
    _connected,         \* self._connected
    _reconnect_attempts,\* self._reconnect_attempts
    chan_pc,            \* position of each subscription's _stream_channel loop
    wait_time,          \* wait_time of the sleep each loop is in
    failures,           \* failed attempts of each loop since its last successful connect
    reachable,          \* whether the feed still accepts connections of each subscription
    sent,               \* how many frames the feed has written for each subscription
    socket,             \* the frames waiting unread in each subscription's open socket
    delivered,          \* the frames each _stream_channel has yielded, in order
    active_streams,     \* self.active_streams: the subscriptions registered as tasks
    disconnected,       \* whether disconnect() has returned
    \* CoinbaseStreamProvider, one kline subscription
    kline_interval,     \* the interval subscribe_kline was called with
    kline_pc,           \* "streaming" while subscribe_kline's loop runs, then "ended"
    current_candle,     \* current_candle of subscribe_kline: Nothing or Some(candle)
    trades,             \* the trades the loop has put into candles, in order
    bars,               \* the StreamMessages subscribe_kline has yielded, in order
    \* DataStream._response_to_dataframe
    row_shape,          \* the keys the provider gives its rows
    provider_response,  \* the DataResponse handed to _response_to_dataframe
    df,                 \* Nothing, or Some(frame) once _response_to_dataframe returned
    \* DataStream.get_many
    many_pc,            \* "idle", "fetching", "returned", or "raised"
    many_args,          \* the symbols and the asset type get_many was called with
    fetched,            \* how the get() of each symbol handled so far ended
    results,            \* results of get_many
    status_result,      \* Nothing, or Some(dict) once status() has returned
    \* DataFetcher
    fetcher_providers,  \* the names registered in DataFetcher.providers
    fetcher_pc,         \* "idle", "returned" or "raised" (fetch_data)
    fetcher_request,    \* the DataRequest of the fetch_data call
    fetcher_calls,      \* the providers whose fetch_timeseries the call invoked
    fetcher_response    \* the DataResponse fetch_data returned

routerVars == <<providers, fallback_enabled, default_provider, pc, request, primary,
                outcome, calls, response, exc>>

bookVars == <<_orderbooks, depth_symbol, frames, prev_orderbooks, yielded, caught,
              depth_of, depth_pc, writers, callbacks, notified>>

channelVars == <<session, websocket, _connected, _reconnect_attempts, chan_pc,
                 wait_time, failures, reachable, sent, socket, delivered>>

klineVars == <<kline_interval, kline_pc, current_candle, trades, bars>>

frameVars == <<row_shape, provider_response, df>>

taskVars == <<active_streams, disconnected>>

manyVars == <<many_pc, many_args, fetched, results, status_result>>

fetcherVars ==
    <<fetcher_providers, fetcher_pc, fetcher_request, fetcher_calls, fetcher_response>>

vars ==
    <<routerVars, bookVars, channelVars, taskVars, klineVars, frameVars, manyVars,
      fetcherVars>>

\* What the steps of the streaming provider leave alone.
outsideStreams == <<routerVars, klineVars, frameVars, manyVars, fetcherVars>>

\* What the steps of one component leave alone.
outsideRouter ==
    <<bookVars, channelVars, klineVars, taskVars, frameVars, manyVars, fetcherVars>>
outsideBook ==
    <<routerVars, channelVars, taskVars, klineVars, frameVars, manyVars, fetcherVars>>
outsideChannels ==
    <<routerVars, bookVars, taskVars, klineVars, frameVars, manyVars, fetcherVars>>
outsideKline ==
    <<routerVars, bookVars, channelVars, taskVars, frameVars, manyVars, fetcherVars>>
outsideFrame ==
    <<routerVars, bookVars, channelVars, taskVars, klineVars, manyVars, fetcherVars>>
outsideMany ==
    <<routerVars, bookVars, channelVars, taskVars, klineVars, frameVars, fetcherVars>>
outsideFetcher ==
    <<routerVars, bookVars, channelVars, taskVars, klineVars, frameVars, manyVars>>

----------------------------------------------------------------------------
\* Bounds of the model.

\* Largest number of providers a constructed DataStream holds.
MaxRegistered == 3

----------------------------------------------------------------------------
\* Values.

None == "None"

\* An absent and a present Optional value that is no string.
Nothing == <<>>
Some(x) == <<x>>

\* The order in which __init__ tries to register the providers.
ConstructionOrder ==
    <<"yfinance", "binance", "fred", "alphavantage", "coinbase",
      "coingecko", "finnhub", "alpaca", "ibkr">>

ProviderNames == {ConstructionOrder[i] : i \in DOMAIN ConstructionOrder}

\* self._provider_priority
_provider_priority ==
    [equity         |-> <<"ibkr", "alpaca", "finnhub", "alphavantage", "yfinance">>,
     stock          |-> <<"ibkr", "alpaca", "finnhub", "alphavantage", "yfinance">>,
     etf            |-> <<"ibkr", "alpaca", "finnhub", "yfinance">>,
     option         |-> <<"ibkr">>,
     future         |-> <<"ibkr">>,
     index          |-> <<"yfinance">>,
     forex          |-> <<"ibkr", "alphavantage", "yfinance">>,
     crypto         |-> <<"binance", "coingecko", "coinbase", "yfinance">>,
     cryptocurrency |-> <<"binance", "coingecko", "coinbase", "yfinance">>,
     economic       |-> <<"fred">>]

\* str.lower() on the asset types the callers pass.
Lower(s) ==
    CASE s = "Crypto" -> "crypto"
      [] s = "EQUITY" -> "equity"
      [] OTHER        -> s

\* Inputs of get(): (symbol, start, end, interval, asset_type) as passed by the
\* caller, None = argument omitted. The asset types cover a table key with
\* several entries, a key with one entry, a differently cased key and a
\* string that is no key.
CallArgs ==
    {<<"AAPL", None, None, "1d", "equity">>,
     <<"BTCUSDT", "2024-01-01", "2024-01-03", "1h", "crypto">>,
     <<"BTC-USD", None, "2024-01-03", "1d", "Crypto">>,
     <<"GDP", "2024-01-01", None, "1mo", "economic">>,
     <<"US10Y", None, None, "1wk", "bond">>}

\* The provider argument of get(): omitted, a name that may be registered, a
\* name that never is.
ExplicitProviders == {None, "yfinance", "polygon"}

\* The default_provider argument of the constructor.
DefaultProviders == {None, "binance"}

\* datetime.now() rendered as "%Y-%m-%d", and the same date one year earlier.
Today == "today"
YearAgo == "year_ago"

Outcomes == {"ok", "fail", "raise"}

\* The rows a provider returns on success.
Rows == <<1, 2, 3>>

NoResponse == [success |-> None]
NoRequest == [symbol |-> None]

SeqToSet(s) == {s[i] : i \in DOMAIN s}

----------------------------------------------------------------------------
\* Construction.

\* The registries __init__ can build: every _add_*_provider either inserts its
\* key or leaves the registry alone, in the fixed order of the calls.
Registries ==
    {SelectSeq(ConstructionOrder, LAMBDA n : n \in S) :
        S \in {T \in SUBSET ProviderNames : Cardinality(T) <= MaxRegistered}}

----------------------------------------------------------------------------
\* Providers (BaseProvider.fetch_timeseries).

\* The error string of a provider's own failure response.
ProviderError == "No data found for the specified date range"

\* A provider's response: success with rows, or failure with its own error.
ProviderResponse(name, symbol, ok) ==
    IF ok
    THEN [symbol |-> symbol, provider |-> name, data |-> Rows,
          success |-> TRUE, error |-> None]
    ELSE [symbol |-> symbol, provider |-> name, data |-> <<>>,
          success |-> FALSE, error |-> ProviderError]

\* The record of one fetch_timeseries invocation.
Call(name, req) ==
    [provider |-> name, symbol |-> req.symbol, start_date |-> req.start_date,
     end_date |-> req.end_date, interval |-> req.interval]

----------------------------------------------------------------------------
\* DataStream._select_provider

\* "if request.provider: if request.provider in self.providers"
ExplicitRegistered(req) ==
    req.provider # None /\ req.provider \in SeqToSet(providers)

\* The priority list consulted for the request (empty when the lower-cased
\* asset type is no key of the table).
PriorityList(req) ==
    LET asset_type == Lower(req.asset_type)
    IN  IF asset_type \in DOMAIN _provider_priority
        THEN _provider_priority[asset_type]
        ELSE <<>>

\* The entries of a list that are registered, in the list's order.
RegisteredOf(list) == SelectSeq(list, LAMBDA p : p \in SeqToSet(providers))

\* A selection that skips the asset type's priority list.
SelectIgnoringPriority(req) ==
    IF ExplicitRegistered(req)
    THEN [raised |-> FALSE, name |-> req.provider]
    ELSE IF providers # <<>>
    THEN [raised |-> FALSE, name |-> Head(providers)]
    ELSE [raised |-> TRUE, error |-> "No providers available"]

\* A selection that returns the explicit provider without the registry check.
SelectUncheckedExplicit(req) ==
    IF req.provider # None
    THEN [raised |-> FALSE, name |-> req.provider]
    ELSE IF RegisteredOf(PriorityList(req)) # <<>>
    THEN [raised |-> FALSE, name |-> Head(RegisteredOf(PriorityList(req)))]
    ELSE IF providers # <<>>
    THEN [raised |-> FALSE, name |-> Head(providers)]
    ELSE [raised |-> TRUE, error |-> "No providers available"]

\* A selection that raises when the explicit provider is not registered.
SelectRaisingOnUnknownExplicit(req) ==
    IF req.provider # None
    THEN IF req.provider \in SeqToSet(providers)
         THEN [raised |-> FALSE, name |-> req.provider]
         ELSE [raised |-> TRUE, error |-> "No providers available"]
    ELSE IF RegisteredOf(PriorityList(req)) # <<>>
    THEN [raised |-> FALSE, name |-> Head(RegisteredOf(PriorityList(req)))]
    ELSE IF providers # <<>>
    THEN [raised |-> FALSE, name |-> Head(providers)]
    ELSE [raised |-> TRUE, error |-> "No providers available"]

\* Result: [raised |-> FALSE, name |-> n], or [raised |-> TRUE, error |-> e]
\* for ValueError(e).
_select_provider(req) ==
    IF ExplicitRegistered(req)
    THEN [raised |-> FALSE, name |-> req.provider]
    ELSE IF RegisteredOf(PriorityList(req)) # <<>>
    THEN [raised |-> FALSE, name |-> Head(RegisteredOf(PriorityList(req)))]
    ELSE IF providers # <<>>
    THEN [raised |-> FALSE, name |-> Head(providers)]
    ELSE [raised |-> TRUE, error |-> "No providers available"]

----------------------------------------------------------------------------
\* DataStream._fetch_with_fallback

\* The result of a part of _fetch_with_fallback: the invocations it made, the
\* response it returned (NoResponse when it returned none) and the exception
\* that left it (None when every exception was caught).
Part(cs, resp, raised) == [calls |-> cs, response |-> resp, raised |-> raised]

\* The exception a provider's fetch_timeseries raises.
ProviderException == "provider exception"

\* A primary attempt that lets the provider's exception through.
TryPrimaryNoCatch(req, primary_provider, oc) ==
    IF primary_provider \in SeqToSet(providers)
    THEN CASE oc[primary_provider] = "ok" ->
                Part(<<Call(primary_provider, req)>>,
                     ProviderResponse(primary_provider, req.symbol, TRUE), None)
           [] oc[primary_provider] = "raise" ->
                Part(<<Call(primary_provider, req)>>, NoResponse, ProviderException)
           [] OTHER ->
                Part(<<Call(primary_provider, req)>>, NoResponse, None)
    ELSE Part(<<>>, NoResponse, None)

\* A primary attempt that does not return the primary's successful response.
TryPrimaryNoReturn(req, primary_provider, oc) ==
    IF primary_provider \in SeqToSet(providers)
    THEN Part(<<Call(primary_provider, req)>>, NoResponse, None)
    ELSE Part(<<>>, NoResponse, None)

\* The primary attempt: the call is made if the primary is registered; a
\* successful response is returned; a failure response and an exception are
\* printed and the method goes on.
TryPrimary(req, primary_provider, oc) ==
    IF primary_provider \in SeqToSet(providers)
    THEN CASE oc[primary_provider] = "ok" ->
                Part(<<Call(primary_provider, req)>>,
                     ProviderResponse(primary_provider, req.symbol, TRUE), None)
           [] oc[primary_provider] = "fail" ->
                Part(<<Call(primary_provider, req)>>, NoResponse, None)
           [] oc[primary_provider] = "raise" ->
                Part(<<Call(primary_provider, req)>>, NoResponse, None)
    ELSE Part(<<>>, NoResponse, None)

\* Fallback candidates that ignore fallback_enabled.
FallbackCandidatesAlways(primary_provider) ==
    SelectSeq(providers, LAMBDA p : p # primary_provider)

\* Fallback candidates that do not skip the primary.
FallbackCandidatesWithPrimary(primary_provider) ==
    IF fallback_enabled THEN providers ELSE <<>>

\* Fallback candidates taken in reverse insertion order.
FallbackCandidatesReversed(primary_provider) ==
    IF fallback_enabled
    THEN LET others == SelectSeq(providers, LAMBDA p : p # primary_provider)
         IN  [i \in 1..Len(others) |-> others[Len(others) + 1 - i]]
    ELSE <<>>

\* "if self.fallback_enabled: for provider_name, provider in
\*  self.providers.items(): if provider_name == primary_provider: continue"
FallbackCandidates(primary_provider) ==
    IF fallback_enabled
    THEN SelectSeq(providers, LAMBDA p : p # primary_provider)
    ELSE <<>>

\* A fallback loop that gives up at the first candidate that fails.
FallbackScanStopAtFailure(req, cands, oc) ==
    IF cands = <<>>
    THEN Part(<<>>, NoResponse, None)
    ELSE IF oc[Head(cands)] = "ok"
    THEN Part(<<Call(Head(cands), req)>>,
              ProviderResponse(Head(cands), req.symbol, TRUE), None)
    ELSE Part(<<Call(Head(cands), req)>>, NoResponse, None)

\* The fallback loop over the candidates in order: a successful response is
\* returned at once; a failure response and an exception move on to the next.
RECURSIVE FallbackScan(_, _, _)
FallbackScan(req, cands, oc) ==
    IF cands = <<>>
    THEN Part(<<>>, NoResponse, None)
    ELSE IF oc[Head(cands)] = "ok"
    THEN Part(<<Call(Head(cands), req)>>,
              ProviderResponse(Head(cands), req.symbol, TRUE), None)
    ELSE LET rest == FallbackScan(req, Tail(cands), oc)
         IN  Part(<<Call(Head(cands), req)>> \o rest.calls,
                  rest.response, rest.raised)

\* An aggregate failure response that names the request's explicit provider
\* instead of the primary.
AllFailedResponseRequestProvider(req, primary_provider) ==
    [symbol |-> req.symbol, provider |-> req.provider, data |-> <<>>,
     success |-> FALSE, error |-> "All providers failed to fetch data"]

\* An aggregate failure response without its error string.
AllFailedResponseNoError(req, primary_provider) ==
    [symbol |-> req.symbol, provider |-> primary_provider, data |-> <<>>,
     success |-> FALSE, error |-> None]

\* "All providers failed"
AllFailedResponse(req, primary_provider) ==
    [symbol |-> req.symbol, provider |-> primary_provider, data |-> <<>>,
     success |-> FALSE, error |-> "All providers failed to fetch data"]

\* Result: the invocations made, the DataResponse returned, and the exception
\* that escaped instead (None when the method returned).
_fetch_with_fallback(req, primary_provider, oc) ==
    LET first == TryPrimary(req, primary_provider, oc)
    IN  IF first.response # NoResponse \/ first.raised # None
        THEN first
        ELSE LET scan == FallbackScan(req, FallbackCandidates(primary_provider), oc)
             IN  IF scan.response # NoResponse \/ scan.raised # None
                 THEN Part(first.calls \o scan.calls, scan.response, scan.raised)
                 ELSE Part(first.calls \o scan.calls,
                           AllFailedResponse(req, primary_provider), None)

----------------------------------------------------------------------------
\* DataStream.get

\* The subscriptions made on one CoinbaseStreamProvider, by stream_id.
Subscriptions == {"depth_BTC-USD", "ticker_ETH-USD"}

\* An empty dict.
EmptyDict == <<>>

\* The tasks that consume depth subscriptions of one provider.
Tasks == {"task1", "task2"}

\* CoinbaseStreamProvider.__init__: no order book, no subscription running.
BookInit ==
    /\ _orderbooks = EmptyDict
    /\ depth_symbol = None
    /\ frames = <<>>
    /\ prev_orderbooks = EmptyDict
    /\ yielded = <<>>
    /\ caught = FALSE
    /\ depth_of = [task \in Tasks |-> None]
    /\ depth_pc = [task \in Tasks |-> "none"]
    /\ writers = EmptyDict
    /\ callbacks = EmptyDict
    /\ notified = <<>>

\* CoinbaseStreamProvider.__init__: no session, no socket, not connected; the
\* _stream_channel of every subscription in `running` is about to make its
\* first connection attempt, the other subscriptions are not made.
LoopState(running) ==
    /\ session = None
    /\ websocket = None
    /\ _connected = FALSE
    /\ _reconnect_attempts = 0
    /\ chan_pc = [s \in Subscriptions |->
                     IF s \in running THEN "connecting" ELSE "unsubscribed"]
    /\ wait_time = [s \in Subscriptions |-> 0]
    /\ failures = [s \in Subscriptions |-> 0]
    /\ reachable = [s \in Subscriptions |-> TRUE]
    /\ sent = [s \in Subscriptions |-> 0]
    /\ socket = [s \in Subscriptions |-> <<>>]
    /\ delivered = [s \in Subscriptions |-> <<>>]
    /\ disconnected = FALSE

\* The subscriptions in `running` are consumed by their callers directly:
\* none is a task in active_streams.
ChannelState(running) ==
    /\ LoopState(running)
    /\ active_streams = {}

ChannelInit == ChannelState(Subscriptions)

\* The intervals subscribe_kline is called with.
Intervals == {"1m", "5m"}

\* subscribe_kline(symbol, interval) up to its first wait for a frame.
KlineState(interval) ==
    /\ kline_interval = interval
    /\ kline_pc = "streaming"
    /\ current_candle = Nothing
    /\ trades = <<>>
    /\ bars = <<>>

\* No kline subscription is looked at: one with the default interval, unused.
KlineInit == KlineState("1m")

\* The keys of a provider's rows: the name of the time column and whether
\* the price columns are capitalised.
RowShape(time, capitalised) == [time |-> time, capitalised |-> capitalised]

\* A successful DataResponse with these rows.
Fetched(data) == [success |-> TRUE, data |-> data]

\* A response a provider is still to fill, not yet converted.
FrameState(shape) ==
    /\ row_shape = shape
    /\ provider_response = Fetched(<<>>)
    /\ df = Nothing

\* No response is being converted.
FrameInit == FrameState(RowShape("timestamp", FALSE))

\* No get_many is running.
ManyInit ==
    /\ many_pc = "idle"
    /\ many_args = Nothing
    /\ fetched = <<>>
    /\ results = EmptyDict
    /\ status_result = Nothing

\* DataFetcher.__init__ with the Binance provider constructed, no call made.
FetcherState(registered) ==
    /\ fetcher_providers = registered
    /\ fetcher_pc = "idle"
    /\ fetcher_request = NoRequest
    /\ fetcher_calls = <<>>
    /\ fetcher_response = NoResponse

FetcherInit == FetcherState({"yfinance", "binance"})

\* A DataStream that is constructed and not used.
RouterInit ==
    /\ providers = <<"yfinance">>
    /\ fallback_enabled = TRUE
    /\ default_provider = None
    /\ pc = "idle"
    /\ request = NoRequest
    /\ primary = None
    /\ outcome = <<>>
    /\ calls = <<>>
    /\ response = NoResponse
    /\ exc = None

\* The DataRequest get() builds from its arguments.
BuildRequest(args, provider) ==
    [symbol     |-> args[1],
     start_date |-> IF args[2] = None THEN YearAgo ELSE args[2],
     end_date   |-> IF args[3] = None THEN Today ELSE args[3],
     interval   |-> args[4],
     asset_type |-> args[5],
     provider   |-> IF provider # None THEN provider ELSE default_provider]

Init ==
    /\ providers \in Registries
    /\ fallback_enabled \in BOOLEAN
    /\ default_provider \in DefaultProviders
    /\ pc = "idle"
    /\ request = NoRequest
    /\ primary = None
    /\ outcome = <<>>
    /\ calls = <<>>
    /\ response = NoResponse
    /\ exc = None
    /\ BookInit
    /\ ChannelInit
    /\ KlineInit
    /\ FrameInit
    /\ ManyInit
    /\ FetcherInit

\* get(symbol, start, end, interval, asset_type, provider), up to the
\* DataResponse it obtains; oc is what the providers do during this fetch.
Get(args, provider, oc) ==
    /\ pc = "idle"
    /\ LET req == BuildRequest(args, provider)
           sel == _select_provider(req)
       IN  /\ request' = req
           /\ outcome' = oc
           /\ IF sel.raised
              THEN /\ pc' = "raised"
                   /\ exc' = sel.error
                   /\ primary' = None
                   /\ calls' = <<>>
                   /\ response' = NoResponse
              ELSE LET res == _fetch_with_fallback(req, sel.name, oc)
                   IN  /\ pc' = IF res.raised = None THEN "returned" ELSE "raised"
                       /\ exc' = res.raised
                       /\ primary' = sel.name
                       /\ calls' = res.calls
                       /\ response' = res.response
    /\ UNCHANGED <<providers, fallback_enabled, default_provider>>
    /\ UNCHANGED outsideRouter

\* The caller is done with the result and may fetch again.
Done ==
    /\ pc \in {"returned", "raised"}
    /\ pc' = "idle"
    /\ request' = NoRequest
    /\ primary' = None
    /\ outcome' = <<>>
    /\ calls' = <<>>
    /\ response' = NoResponse
    /\ exc' = None
    /\ UNCHANGED <<providers, fallback_enabled, default_provider>>
    /\ UNCHANGED outsideRouter

Next ==
    \/ \E args \in CallArgs, provider \in ExplicitProviders,
          oc \in [SeqToSet(providers) -> Outcomes] :
            Get(args, provider, oc)
    \/ Done

Spec == Init /\ [][Next]_vars

----------------------------------------------------------------------------
\* Properties of the router.

Registered == SeqToSet(providers)

\* Position of a registered provider in the registry's insertion order.
Pos(p) == CHOOSE i \in DOMAIN providers : providers[i] = p

\* A fetch has returned from _fetch_with_fallback.
Returned == pc = "returned"

\* The primary's fetch_timeseries failed (success=false or raised).
PrimaryFailed == Returned /\ outcome[primary] # "ok"

\* The providers invoked during the fetch.
Called == {calls[i].provider : i \in DOMAIN calls}

\* C1: with fallback enabled, when the primary fails and some other registered
\* provider would succeed, the fetch returns success=true, produced by a
\* provider other than the primary whose name is the response's provider
\* field, and no exception reaches the caller.
C1_FallbackSucceeds ==
    (/\ PrimaryFailed
     /\ fallback_enabled
     /\ \E p \in Registered \ {primary} : outcome[p] = "ok")
    => /\ exc = None
       /\ response.success = TRUE
       /\ response.provider \in Registered \ {primary}
       /\ outcome[response.provider] = "ok"
       /\ response.provider = calls[Len(calls)].provider
       /\ response.data = Rows

\* C1 witness: the primary raised, a later provider failed, a third succeeded.
C1_Witness ==
    /\ PrimaryFailed
    /\ fallback_enabled
    /\ outcome[primary] = "raise"
    /\ Len(calls) = 3
    /\ response.success = TRUE
    /\ response.provider # primary

\* C2: with fallback disabled, a primary failure yields success=false and no
\* provider other than the primary is invoked.
C2_NoFallbackWhenDisabled ==
    (PrimaryFailed /\ ~fallback_enabled)
    => /\ response.success = FALSE
       /\ \A i \in DOMAIN calls : calls[i].provider = primary
       /\ Len(calls) = 1

\* C2 witness: fallback disabled, the primary failed, another registered
\* provider would have succeeded and was not asked.
C2_Witness ==
    /\ PrimaryFailed
    /\ ~fallback_enabled
    /\ \E p \in Registered \ {primary} : outcome[p] = "ok"
    /\ response.success = FALSE

\* The list the priority table holds under exactly this key (empty when the
\* string is no key of the table).
TableList(key) ==
    IF key \in DOMAIN _provider_priority THEN _provider_priority[key] ELSE <<>>

\* n is the earliest entry of the list that is registered.
HighestRegistered(n, list) ==
    \E i \in DOMAIN list :
        /\ list[i] = n
        /\ n \in Registered
        /\ \A j \in 1..(i - 1) : list[j] \notin Registered

HasRegisteredEntry(list) == \E i \in DOMAIN list : list[i] \in Registered

\* _select_provider has run for the request in `request`.
Selected == pc # "idle"

\* C3 as stated: for every request whose asset type has a priority list with
\* a registered entry, the selected provider is registered and is the
\* highest-priority registered entry of that list.
C3_AsStated ==
    (Selected /\ HasRegisteredEntry(TableList(request.asset_type)))
    => /\ pc = "returned"
       /\ primary \in Registered
       /\ HighestRegistered(primary, TableList(request.asset_type))

\* C3 amended: the same, for the requests whose explicit provider is unset or
\* not registered.
C3_HighestPriorityUnlessExplicit ==
    (/\ Selected
     /\ HasRegisteredEntry(TableList(request.asset_type))
     /\ (request.provider = None \/ request.provider \notin Registered))
    => /\ pc = "returned"
       /\ primary \in Registered
       /\ HighestRegistered(primary, TableList(request.asset_type))

\* C3 witness: two entries of the equity list are registered, the explicit
\* provider is not registered, and the selection is not the first provider
\* of the registry.
C3_Witness ==
    /\ Selected
    /\ request.asset_type = "equity"
    /\ request.provider = "polygon"
    /\ Cardinality(Registered \cap SeqToSet(TableList("equity"))) >= 2
    /\ primary # Head(providers)
    /\ HighestRegistered(primary, TableList("equity"))

\* The cascade of the claim over a given priority list; "FAIL" = no provider.
Cascade(req, list) ==
    IF req.provider # None /\ req.provider \in Registered
    THEN req.provider
    ELSE IF HasRegisteredEntry(list)
    THEN CHOOSE n \in Registered : HighestRegistered(n, list)
    ELSE IF Len(providers) > 0
    THEN providers[1]
    ELSE "FAIL"

\* The outcome of the selection agrees with the cascade's result.
AgreesWithCascade(expected) ==
    IF expected = "FAIL"
    THEN pc = "raised" /\ exc = "No providers available" /\ calls = <<>>
    ELSE pc = "returned" /\ primary = expected /\ primary \in Registered

\* C4 as stated: explicit provider if set and registered, else the first
\* registered entry of priority_table[asset_type], else the first registered
\* provider, else failure "no providers available"; a returned name is a key
\* of the registry.
C4_AsStated ==
    Selected => AgreesWithCascade(Cascade(request, TableList(request.asset_type)))

\* C4 amended: the same cascade with the table looked up under the
\* lower-cased asset type.
C4_CascadeLowerCased ==
    Selected => AgreesWithCascade(Cascade(request, TableList(Lower(request.asset_type))))

\* C4 witness: each of the four steps of the cascade decides some selection.
\* This one: the explicit provider is not registered, no entry of the list is
\* registered, and the first provider of a registry of three is selected.
C4_Witness ==
    /\ Selected
    /\ request.provider = "polygon"
    /\ request.asset_type = "economic"
    /\ Len(providers) = 3
    /\ ~HasRegisteredEntry(TableList("economic"))
    /\ primary = providers[1]

\* C5: when the primary's fetch_timeseries returns success=true, the fetch
\* returns exactly that response and invokes no other provider, with fallback
\* enabled or disabled.
C5_PrimarySuccessReturnsAtOnce ==
    (Selected /\ primary \in Registered /\ outcome[primary] = "ok")
    => /\ pc = "returned"
       /\ response = ProviderResponse(primary, request.symbol, TRUE)
       /\ calls = <<Call(primary, request)>>

\* C5 witness: the primary succeeded while fallback was enabled and other
\* providers were registered.
C5_Witness ==
    /\ Returned
    /\ outcome[primary] = "ok"
    /\ fallback_enabled
    /\ Len(providers) = 3
    /\ response.provider = primary
    /\ Len(calls) = 1

\* C6: no provider failure reaches the caller as an exception: whatever the
\* registry and whatever the providers do, once a primary is selected the
\* fetch returns a DataResponse that is a provider's successful result or has
\* success=false with an error string.
C6_ProviderFailuresNeverRaised ==
    /\ exc \in {None, "No providers available"}
    /\ (Selected /\ providers # <<>>)
       => /\ pc = "returned"
          /\ exc = None
          /\ \/ /\ response.success = TRUE
                /\ response.provider \in Called
                /\ outcome[response.provider] = "ok"
             \/ /\ response.success = FALSE
                /\ response.error # None
                /\ \A p \in Called : outcome[p] # "ok"

\* C6 witness: every registered provider raised and the fetch still returned
\* a failure response.
C6_Witness ==
    /\ Returned
    /\ fallback_enabled
    /\ Len(providers) = 3
    /\ \A p \in Registered : outcome[p] = "raise"
    /\ Len(calls) = 3
    /\ response.success = FALSE

\* The message of the failure a fetch ended in: that of the exception that
\* escaped, else the error of the response.
FailureMessage == IF exc # None THEN exc ELSE response.error

\* C7: with no provider registered a fetch ends in a failure whose message
\* says that no providers are available, and no exception escapes get().
C7_NoProvidersFailsWithoutException ==
    (Selected /\ providers = <<>>)
    => /\ FailureMessage = "No providers available"
       /\ exc = None

\* Registered providers other than the primary that precede p in the
\* registry's insertion order.
EarlierOthers(p) == {q \in Registered \ {primary} : Pos(q) < Pos(p)}

Precedes(p, q, list) ==
    \E i, j \in DOMAIN list : i < j /\ list[i] = p /\ list[j] = q

C10_AsStated ==
    (Returned /\ ~fallback_enabled /\ outcome[primary] = "fail")
    => response = ProviderResponse(primary, request.symbol, FALSE)

\* C10 amended: with fallback disabled, a primary that returns success=false
\* leads to a newly built failure response: the request's symbol, the
\* primary's name as provider, no data, and the aggregate error string in
\* place of the provider's own.
C10_AggregateFailureWhenDisabled ==
    (Returned /\ ~fallback_enabled /\ outcome[primary] = "fail")
    => /\ response.success = FALSE
       /\ response.symbol = request.symbol
       /\ response.provider = primary
       /\ response.data = <<>>
       /\ response.error = "All providers failed to fetch data"
       /\ response.error # ProviderResponse(primary, request.symbol, FALSE).error

\* C10 witness: fallback disabled, the primary returned success=false, and
\* the caller holds a failure response.
C10_Witness ==
    /\ Returned
    /\ ~fallback_enabled
    /\ outcome[primary] = "fail"
    /\ Len(providers) >= 2
    /\ calls = <<Call(primary, request)>>
    /\ response.success = FALSE

\* C11: a response returned with success=false has no data; when every
\* attempted provider failed the response is success=false with empty data,
\* the one aggregate error string and the primary's name as provider.
C11_FailureResponseIsEmptyAggregate ==
    Returned =>
        /\ response.success = FALSE => response.data = <<>>
        /\ (\A p \in Called : outcome[p] # "ok")
           => /\ response.success = FALSE
              /\ response.data = <<>>
              /\ response.error = "All providers failed to fetch data"
              /\ response.provider = primary
              /\ response.symbol = request.symbol

\* C11 witness: an explicit provider that is not registered was asked for,
\* three providers were attempted, one returned success=false and one raised,
\* and the aggregate failure came back.
C11_Witness ==
    /\ Returned
    /\ request.provider = "polygon"
    /\ Len(calls) = 3
    /\ \E p, q \in Called : outcome[p] = "fail" /\ outcome[q] = "raise"
    /\ response.success = FALSE
    /\ response.provider = primary

\* The request without its explicit provider.
WithoutExplicit(req) == [req EXCEPT !.provider = None]

\* C12: an explicit provider that is not registered causes no failure by
\* itself: when at least one provider is registered the selection returns a
\* registered name, the one asset-type selection gives without an explicit
\* provider, and neither raises nor returns the unregistered name.
C12_UnknownExplicitFallsThrough ==
    (/\ Selected
     /\ request.provider # None
     /\ request.provider \notin Registered
     /\ providers # <<>>)
    => /\ pc = "returned"
       /\ exc = None
       /\ primary \in Registered
       /\ primary # request.provider
       /\ primary = Cascade(WithoutExplicit(request),
                            TableList(Lower(request.asset_type)))

\* C12 witness: the explicit provider is unknown, and the asset type's
\* priority list decided the selection although its entry is not the first
\* provider of the registry.
C12_Witness ==
    /\ Selected
    /\ request.provider = "polygon"
    /\ Len(providers) >= 2
    /\ primary \in Registered
    /\ primary # Head(providers)
    /\ HighestRegistered(primary, TableList(Lower(request.asset_type)))

----------------------------------------------------------------------------
\* The level-2 order book of CoinbaseStreamProvider
\* (wrdata/streaming/coinbase_stream.py).

\* Largest number of frames one depth subscription is followed through.
MaxFrames == 3

\* The [:20] of _create_orderbook_message.
TopLevels == 20

\* A decimal as the feed writes it: its digits before and after the point.
Dec(whole, frac) == [whole |-> whole, frac |-> frac]

\* The fractional parts float() accepts here; any other text raises ValueError.
Fractions == {"", "0", "00", "5"}

IsFloat(text) == text.frac \in Fractions

\* float(text). Floats are held in quarters (1.0 is 4), which keeps the sizes
\* x.5 and the midpoint of two prices exact.
Float(text) == 4 * text.whole + (IF text.frac = "5" THEN 2 ELSE 0)

\* Python's truth value of an Optional[float]: None and 0.0 are false.
Truthy(opt) == opt # Nothing /\ opt[1] # 0

\* dict[key] = value
Put(dict, key, value) ==
    [k \in DOMAIN dict \cup {key} |-> IF k = key THEN value ELSE dict[k]]

\* dict.pop(key, None)
Pop(dict, key) == [k \in DOMAIN dict \ {key} |-> dict[k]]

Max(S) == CHOOSE x \in S : \A y \in S : y <= x
Min(S) == CHOOSE x \in S : \A y \in S : x <= y

\* seq[:n]
Take(seq, n) == SubSeq(seq, 1, IF Len(seq) < n THEN Len(seq) ELSE n)

\* The symbols subscribe_depth is called with.
SymbolArgs == {"BTC-USD", "ethusd"}

_normalize_symbol(symbol) ==
    CASE symbol = "ethusd" -> "ETH-USD"
      [] OTHER             -> symbol

\* The [price, size] lists of the snapshots of the feed: the book of the
\* end-to-end scenario, one at other prices, one with sizes of zero, one with
\* a bid at price zero, one that writes a price twice, one deeper than
\* TopLevels on both sides, and one whose second bid has no number for a price.
ScenarioBids == <<<<Dec(100, ""), Dec(1, "")>>, <<Dec(99, ""), Dec(2, "")>>>>
ScenarioAsks == <<<<Dec(101, ""), Dec(1, "")>>>>
DeepBids == [i \in 1..(TopLevels + 1) |-> <<Dec(49 + i, "00"), Dec(1, "0")>>]
DeepAsks == [i \in 1..(TopLevels + 2) |-> <<Dec(123 - i, "00"), Dec(i, "5")>>]

Snapshot(bids, asks) == [type |-> "snapshot", bids |-> bids, asks |-> asks]

Snapshots ==
    { Snapshot(ScenarioBids, ScenarioAsks),
      Snapshot(<<<<Dec(98, "00"), Dec(1, "5")>>>>, <<<<Dec(103, "00"), Dec(2, "0")>>>>),
      Snapshot(<<<<Dec(100, ""), Dec(0, "")>>, <<Dec(99, ""), Dec(1, "")>>>>,
               <<<<Dec(101, "00"), Dec(0, "00")>>>>),
      Snapshot(<<<<Dec(0, "00"), Dec(1, "")>>>>, <<<<Dec(102, ""), Dec(1, "")>>>>),
      Snapshot(<<<<Dec(100, ""), Dec(1, "")>>, <<Dec(100, "00"), Dec(2, "")>>>>, <<>>),
      Snapshot(DeepBids, DeepAsks),
      Snapshot(<<<<Dec(97, ""), Dec(1, "")>>, <<Dec(96, "x"), Dec(1, "")>>>>,
               ScenarioAsks) }

L2Update(changes) == [type |-> "l2update", changes |-> changes]

\* The l2updates of the feed: the two of the scenario, an overwrite, removals
\* of present and of absent prices, a bid above the asks, an ask at price
\* zero, two changes to one price, and one whose second change lacks its size.
L2Updates ==
    { L2Update(<<<<"buy", Dec(100, ""), Dec(0, "")>>>>),
      L2Update(<<<<"sell", Dec(102, ""), Dec(0, "5")>>>>),
      L2Update(<<<<"buy", Dec(100, "00"), Dec(2, "0")>>>>),
      L2Update(<<<<"sell", Dec(101, "00"), Dec(0, "00")>>>>),
      L2Update(<<<<"buy", Dec(95, ""), Dec(0, "0")>>>>),
      L2Update(<<<<"sell", Dec(99, ""), Dec(0, "")>>>>),
      L2Update(<<<<"buy", Dec(102, ""), Dec(1, "")>>>>),
      L2Update(<<<<"sell", Dec(0, ""), Dec(1, "")>>>>),
      L2Update(<<<<"buy", Dec(99, ""), Dec(1, "")>>, <<"buy", Dec(99, "0"), Dec(0, "")>>,
                 <<"sell", Dec(104, ""), Dec(1, "")>>>>),
      L2Update(<<<<"buy", Dec(98, ""), Dec(1, "")>>, <<"buy", Dec(97, "")>>>>) }

\* Frames of the level2 channel that are neither.
OtherFrames == {[type |-> "subscriptions"], [type |-> "heartbeat"]}

Frames == Snapshots \cup L2Updates \cup OtherFrames

\* The result of a step that may raise: the dict as the step left it.
Step(dict, raised) == [dict |-> dict, raised |-> raised]

\* for price, size in levels: side[float(price)] = float(size)
RECURSIVE AddLevels(_, _)
AddLevels(side, levels) ==
    IF levels = <<>> THEN Step(side, FALSE)
    ELSE LET level == Head(levels)
         IN  IF Len(level) # 2 \/ ~IsFloat(level[1]) \/ ~IsFloat(level[2])
             THEN Step(side, TRUE)
             ELSE AddLevels(Put(side, Float(level[1]), Float(level[2])),
                            Tail(levels))

\* _process_snapshot that fills the maps without resetting them first.
SnapshotWithoutReset(orderbooks, symbol, message) ==
    LET bids == AddLevels(orderbooks[symbol].bids, message.bids)
        asks == IF bids.raised THEN Step(orderbooks[symbol].asks, TRUE)
                ELSE AddLevels(orderbooks[symbol].asks, message.asks)
    IN  Step([orderbooks EXCEPT ![symbol] = [bids |-> bids.dict, asks |-> asks.dict]],
             asks.raised)

_process_snapshot(orderbooks, symbol, message) ==
    LET bids == AddLevels(EmptyDict, message.bids)
        asks == IF bids.raised THEN Step(EmptyDict, TRUE)
                ELSE AddLevels(EmptyDict, message.asks)
    IN  Step([orderbooks EXCEPT ![symbol] = [bids |-> bids.dict, asks |-> asks.dict]],
             asks.raised)

\* The map a change goes to.
SideOf(side) == IF side = "buy" THEN "bids" ELSE "asks"

\* The body of _process_l2update's loop with del book[price] for the removal,
\* which raises KeyError for an absent price.
ApplyChangeStrictRemove(orderbook, change) ==
    IF Len(change) # 3 \/ ~IsFloat(change[2]) \/ ~IsFloat(change[3])
    THEN Step(orderbook, TRUE)
    ELSE LET price == Float(change[2])
             size == Float(change[3])
             book == orderbook[SideOf(change[1])]
         IN  IF size = 0
             THEN IF price \in DOMAIN book
                  THEN Step([orderbook EXCEPT ![SideOf(change[1])] = Pop(book, price)], FALSE)
                  ELSE Step(orderbook, TRUE)
             ELSE Step([orderbook EXCEPT ![SideOf(change[1])] = Put(book, price, size)],
                       FALSE)

\* The body of the loop with every change written to the bids.
ApplyChangeToBids(orderbook, change) ==
    IF Len(change) # 3 \/ ~IsFloat(change[2]) \/ ~IsFloat(change[3])
    THEN Step(orderbook, TRUE)
    ELSE LET price == Float(change[2])
             size == Float(change[3])
             book == orderbook.bids
         IN  Step([orderbook EXCEPT !.bids =
                      IF size = 0 THEN Pop(book, price) ELSE Put(book, price, size)],
                  FALSE)

\* The body of the loop with the size of a change added to the size stored.
ApplyChangeAsDelta(orderbook, change) ==
    IF Len(change) # 3 \/ ~IsFloat(change[2]) \/ ~IsFloat(change[3])
    THEN Step(orderbook, TRUE)
    ELSE LET price == Float(change[2])
             size == Float(change[3])
             book == orderbook[SideOf(change[1])]
             stored == IF price \in DOMAIN book THEN book[price] ELSE 0
         IN  Step([orderbook EXCEPT ![SideOf(change[1])] =
                      IF size = 0 THEN Pop(book, price) ELSE Put(book, price, stored + size)],
                  FALSE)

\* The body of _process_l2update's loop: one change.
ApplyChange(orderbook, change) ==
    IF Len(change) # 3 \/ ~IsFloat(change[2]) \/ ~IsFloat(change[3])
    THEN Step(orderbook, TRUE)
    ELSE LET price == Float(change[2])
             size == Float(change[3])
             book == orderbook[SideOf(change[1])]
         IN  Step([orderbook EXCEPT ![SideOf(change[1])] =
                      IF size = 0 THEN Pop(book, price) ELSE Put(book, price, size)],
                  FALSE)

RECURSIVE ApplyChanges(_, _)
ApplyChanges(orderbook, changes) ==
    IF changes = <<>> THEN Step(orderbook, FALSE)
    ELSE LET one == ApplyChange(orderbook, Head(changes))
         IN  IF one.raised THEN one ELSE ApplyChanges(one.dict, Tail(changes))

\* _process_l2update that puts the book back as it was when a change raises.
L2UpdateAllOrNothing(orderbooks, symbol, message) ==
    LET applied == ApplyChanges(orderbooks[symbol], message.changes)
    IN  IF applied.raised THEN Step(orderbooks, TRUE)
        ELSE Step([orderbooks EXCEPT ![symbol] = applied.dict], FALSE)

_process_l2update(orderbooks, symbol, message) ==
    LET applied == ApplyChanges(orderbooks[symbol], message.changes)
    IN  Step([orderbooks EXCEPT ![symbol] = applied.dict], applied.raised)

\* sorted([[p, s] for p, s in side.items()], key=lambda x: x[0], reverse=reverse)
RECURSIVE sorted(_, _)
sorted(side, reverse) ==
    IF DOMAIN side = {} THEN <<>>
    ELSE LET p == IF reverse THEN Max(DOMAIN side) ELSE Min(DOMAIN side)
         IN  <<<<p, side[p]>>>> \o sorted(Pop(side, p), reverse)

\* The levels of a side as a list.
RECURSIVE Items(_)
Items(side) ==
    IF DOMAIN side = {} THEN <<>>
    ELSE LET p == Min(DOMAIN side) IN <<<<p, side[p]>>>> \o Items(Pop(side, p))

\* The list of a side cut to its length before it is sorted.
RECURSIVE SortList(_, _)
SortList(list, reverse) ==
    IF list = <<>> THEN <<>>
    ELSE LET ps == {list[i][1] : i \in DOMAIN list}
             p == IF reverse THEN Max(ps) ELSE Min(ps)
             i == CHOOSE j \in DOMAIN list : list[j][1] = p
         IN  <<list[i]>> \o SortList(SubSeq(list, 1, i - 1) \o SubSeq(list, i + 1, Len(list)),
                                     reverse)
TopOfSideCutFirst(side, reverse) == SortList(Take(Items(side), TopLevels), reverse)

\* The bids or asks list of the message: sorted(...)[:20].
TopOfSide(side, reverse) == Take(sorted(side, reverse), TopLevels)

\* The name CoinbaseStreamProvider passes to BaseStreamProvider.
ProviderName == "coinbase_stream"

\* (best_bid + best_ask) / 2 if (best_bid and best_ask) else None
MidPrice(best_bid, best_ask) ==
    IF Truthy(best_bid) /\ Truthy(best_ask)
    THEN Some((best_bid[1] + best_ask[1]) \div 2)
    ELSE Nothing

\* The StreamMessage of a book, without its timestamp (the clock's time).
_create_orderbook_message(orderbooks, symbol) ==
    LET orderbook == orderbooks[symbol]
        bids == TopOfSide(orderbook.bids, TRUE)
        asks == TopOfSide(orderbook.asks, FALSE)
        best_bid == IF bids # <<>> THEN Some(bids[1][1]) ELSE Nothing
        best_ask == IF asks # <<>> THEN Some(asks[1][1]) ELSE Nothing
    IN  [symbol      |-> symbol,
         price       |-> MidPrice(best_bid, best_ask),
         bid         |-> best_bid,
         ask         |-> best_ask,
         bids        |-> bids,
         asks        |-> asks,
         provider    |-> ProviderName,
         stream_type |-> "depth"]

\* What one frame does: the books after it, the messages yielded for it and
\* whether its processing ended in the except clause.
Handled(orderbooks, msgs, raised) ==
    [orderbooks |-> orderbooks, yielded |-> msgs, caught |-> raised]

\* The loop body of subscribe_depth with the message built before the frame
\* is applied.
HandleFrameMessageFirst(orderbooks, symbol, message) ==
    LET msg == _create_orderbook_message(orderbooks, symbol)
    IN  IF message.type = "snapshot"
        THEN LET done == _process_snapshot(orderbooks, symbol, message)
             IN  Handled(done.dict, IF done.raised THEN <<>> ELSE <<msg>>, done.raised)
        ELSE IF message.type = "l2update"
        THEN LET done == _process_l2update(orderbooks, symbol, message)
             IN  Handled(done.dict, IF done.raised THEN <<>> ELSE <<msg>>, done.raised)
        ELSE Handled(orderbooks, <<>>, FALSE)

\* The loop body of subscribe_depth for one frame of _stream_channel; the
\* subscription has no callback.
HandleFrame(orderbooks, symbol, message) ==
    IF message.type = "snapshot"
    THEN LET done == _process_snapshot(orderbooks, symbol, message)
         IN  IF done.raised THEN Handled(done.dict, <<>>, TRUE)
             ELSE Handled(done.dict, <<_create_orderbook_message(done.dict, symbol)>>, FALSE)
    ELSE IF message.type = "l2update"
    THEN LET done == _process_l2update(orderbooks, symbol, message)
         IN  IF done.raised THEN Handled(done.dict, <<>>, TRUE)
             ELSE Handled(done.dict, <<_create_orderbook_message(done.dict, symbol)>>, FALSE)
    ELSE Handled(orderbooks, <<>>, FALSE)

\* subscribe_depth(symbol) up to its first wait for a frame.
SubscribeDepth(symbol) ==
    /\ depth_symbol = None
    /\ depth_symbol' = _normalize_symbol(symbol)
    /\ _orderbooks' = [s \in {_normalize_symbol(symbol)} |->
                          [bids |-> EmptyDict, asks |-> EmptyDict]]
    /\ UNCHANGED <<frames, prev_orderbooks, yielded, caught>>
    /\ UNCHANGED <<depth_of, depth_pc, writers, callbacks, notified>>
    /\ UNCHANGED outsideBook

\* subscribe_depth receives one frame from _stream_channel and handles it.
DepthFrame(message) ==
    /\ depth_symbol # None
    /\ Len(frames) < MaxFrames
    /\ LET done == HandleFrame(_orderbooks, depth_symbol, message)
       IN  /\ _orderbooks' = done.orderbooks
           /\ yielded' = done.yielded
           /\ caught' = done.caught
    /\ frames' = Append(frames, message)
    /\ prev_orderbooks' = _orderbooks
    /\ UNCHANGED depth_symbol
    /\ UNCHANGED <<depth_of, depth_pc, writers, callbacks, notified>>
    /\ UNCHANGED outsideBook

InitBook ==
    RouterInit /\ BookInit /\ ChannelInit /\ KlineInit /\ FrameInit /\ ManyInit /\ FetcherInit

NextBook ==
    \/ \E symbol \in SymbolArgs : SubscribeDepth(symbol)
    \/ \E message \in Frames : DepthFrame(message)

SpecBook == InitBook /\ [][NextBook]_vars

----------------------------------------------------------------------------
\* Properties of the order book.

\* The book of the running depth subscription, its last frame and the book
\* before that frame.
Subscribed == depth_symbol # None
Book == _orderbooks[depth_symbol]
PrevBook == prev_orderbooks[depth_symbol]
LastFrame == frames[Len(frames)]
FrameHandled == Subscribed /\ frames # <<>>
Applied(type) == FrameHandled /\ LastFrame.type = type /\ ~caught
BookSides == {"bids", "asks"}

\* C13: in every reachable orderbook state, after any sequence of snapshot and
\* l2update messages, neither the bids map nor the asks map holds an entry
\* whose size is 0, also when a snapshot itself lists a level with size 0.
C13_NoZeroSizeStored ==
    \A symbol \in DOMAIN _orderbooks : \A side \in BookSides :
        \A price \in DOMAIN _orderbooks[symbol][side] :
            _orderbooks[symbol][side][price] # 0

\* The map a list of [price, size] levels stands for: the parsed prices, each
\* with the parsed size of the last level that names it.
PricesOf(levels) == {Float(levels[i][1]) : i \in DOMAIN levels}
SizeIn(levels, price) ==
    Float(levels[Max({i \in DOMAIN levels : Float(levels[i][1]) = price})][2])
HoldsExactly(side, levels) ==
    /\ DOMAIN side = PricesOf(levels)
    /\ \A price \in DOMAIN side : side[price] = SizeIn(levels, price)

\* C14: a snapshot replaces the symbol's orderbook wholesale: after
\* _process_snapshot the bids and asks maps hold exactly the (price, size)
\* levels of that snapshot and nothing of any earlier snapshot or update.
C14_SnapshotReplacesBook ==
    Applied("snapshot") =>
        /\ HoldsExactly(Book.bids, LastFrame.bids)
        /\ HoldsExactly(Book.asks, LastFrame.asks)
        /\ \A side \in BookSides : \A price \in DOMAIN PrevBook[side] :
               price \notin PricesOf(LastFrame[side]) => price \notin DOMAIN Book[side]

\* A snapshot applied right after a snapshot of other prices.
C14_Witness ==
    /\ Applied("snapshot")
    /\ Len(frames) >= 2
    /\ frames[Len(frames) - 1].type = "snapshot"
    /\ \A side \in BookSides :
           /\ DOMAIN PrevBook[side] # {}
           /\ DOMAIN Book[side] # {}
           /\ DOMAIN PrevBook[side] \cap DOMAIN Book[side] = {}

\* The side of the book a change names, and the changes of a list that name
\* a given side and price.
MapOfSide == [buy |-> "bids", sell |-> "asks"]
Touching(changes, side, price) ==
    {i \in DOMAIN changes :
        MapOfSide[changes[i][1]] = side /\ Float(changes[i][2]) = price}

\* One level of a side is the same in two books.
SameLevel(a, b, side, price) ==
    /\ price \in DOMAIN a[side] <=> price \in DOMAIN b[side]
    /\ price \in DOMAIN a[side] => a[side][price] = b[side][price]

\* The prices a book or a list of changes names.
PricesAround(changes) ==
    DOMAIN PrevBook.bids \cup DOMAIN PrevBook.asks \cup DOMAIN Book.bids
        \cup DOMAIN Book.asks \cup {Float(changes[i][2]) : i \in DOMAIN changes}

\* The frames of end-to-end scenario 3.
ScenarioFrames ==
    << Snapshot(ScenarioBids, ScenarioAsks),
       L2Update(<<<<"buy", Dec(100, ""), Dec(0, "")>>>>),
       L2Update(<<<<"sell", Dec(102, ""), Dec(0, "5")>>>> ) >>

\* C15: an l2update applies its changes in order, each touching only the map
\* of its side (buy = bids, sell = asks): size 0 removes the price key, any
\* other size sets price -> size, every other level of both sides is left as
\* it was. Hence snapshot bids [[100,1],[99,2]], asks [[101,1]], then
\* (buy,100,0), then (sell,102,0.5) yields bids [[99,2]], asks
\* [[101,1],[102,0.5]].
C15_UpdateAppliesChangesInOrder ==
    /\ Applied("l2update") =>
           \A side \in BookSides : \A price \in PricesAround(LastFrame.changes) :
               LET touching == Touching(LastFrame.changes, side, price)
                   size == Float(LastFrame.changes[Max(touching)][3])
               IN  IF touching = {} THEN SameLevel(Book, PrevBook, side, price)
                   ELSE IF size = 0 THEN price \notin DOMAIN Book[side]
                   ELSE price \in DOMAIN Book[side] /\ Book[side][price] = size
    /\ frames = ScenarioFrames =>
           /\ Len(yielded) = 1
           /\ yielded[1].bids = <<<<Float(Dec(99, "")), Float(Dec(2, ""))>>>>
           /\ yielded[1].asks = << <<Float(Dec(101, "")), Float(Dec(1, ""))>>,
                                   <<Float(Dec(102, "")), Float(Dec(0, "5"))>> >>

\* The scenario has run to its last depth message.
C15_Witness ==
    /\ Applied("l2update")
    /\ frames = ScenarioFrames
    /\ yielded # <<>>
    /\ DOMAIN Book.asks # DOMAIN PrevBook.asks

\* Every change of the list is a removal (size 0) of a price its side lacks.
RemovesAbsentOnly(changes, book) ==
    \A i \in DOMAIN changes :
        /\ Len(changes[i]) = 3
        /\ IsFloat(changes[i][2]) /\ IsFloat(changes[i][3])
        /\ Float(changes[i][3]) = 0
        /\ Float(changes[i][2]) \notin DOMAIN book[MapOfSide[changes[i][1]]]

\* C16: applying an update with size 0 for a price that is absent from that
\* side's map raises no error and leaves both maps exactly unchanged.
C16_RemovingAbsentPriceIsNoOp ==
    (/\ FrameHandled
     /\ LastFrame.type = "l2update"
     /\ RemovesAbsentOnly(LastFrame.changes, PrevBook))
    => /\ ~caught
       /\ Book = PrevBook
       /\ _orderbooks = prev_orderbooks

\* A removal of an absent bid has been applied to a book that has bids.
C16_Witness ==
    /\ Applied("l2update")
    /\ LastFrame.changes # <<>>
    /\ RemovesAbsentOnly(LastFrame.changes, PrevBook)
    /\ LastFrame.changes[1][1] = "buy"
    /\ DOMAIN PrevBook.bids # {}
    /\ Book = PrevBook

\* The price levels a list of the message names.
Listed(list) == {list[i][1] : i \in DOMAIN list}

\* A list of the message holds the best levels of a stored side, best first:
\* better(p, q) says that price p is strictly better than price q.
BestLevelsFirst(list, side, better(_, _)) ==
    /\ \A i \in DOMAIN list :
           /\ list[i][1] \in DOMAIN side
           /\ list[i] = <<list[i][1], side[list[i][1]]>>
    /\ \A i, j \in DOMAIN list : i < j => better(list[i][1], list[j][1])
    /\ Len(list) <= TopLevels
    /\ Len(list) = IF Cardinality(DOMAIN side) < TopLevels
                   THEN Cardinality(DOMAIN side) ELSE TopLevels
    /\ \A p \in DOMAIN side \ Listed(list) : \A q \in Listed(list) : better(q, p)

HigherPrice(p, q) == p > q
LowerPrice(p, q) == p < q

\* C17: every depth StreamMessage produced from any reachable orderbook state
\* has its bids sorted strictly descending by price and its asks strictly
\* ascending, each with at most 20 entries, and these are the 20 best stored
\* levels of the side (highest bids, lowest asks), all of them when fewer
\* than 20 exist.
C17_DepthListsSortedAndTruncated ==
    \A i \in DOMAIN yielded :
        /\ BestLevelsFirst(yielded[i].bids, Book.bids, HigherPrice)
        /\ BestLevelsFirst(yielded[i].asks, Book.asks, LowerPrice)

\* A message of a book that holds more than 20 levels on both sides.
C17_Witness ==
    /\ FrameHandled
    /\ yielded # <<>>
    /\ Cardinality(DOMAIN Book.bids) > TopLevels
    /\ Cardinality(DOMAIN Book.asks) > TopLevels
    /\ Len(yielded[1].bids) = TopLevels
    /\ Len(yielded[1].asks) = TopLevels

\* C18: in every emitted depth message, bid is the highest stored bid price
\* (absent when there are no bids), ask is the lowest stored ask price (absent
\* when there are no asks), and price is the midpoint (bid + ask) / 2 whenever
\* both are present, for every price value including 0, and absent otherwise.
C18_BestPricesAndMidpoint ==
    \A i \in DOMAIN yielded :
        LET msg == yielded[i]
        IN  /\ msg.bid = IF DOMAIN Book.bids = {} THEN Nothing
                         ELSE Some(Max(DOMAIN Book.bids))
            /\ msg.ask = IF DOMAIN Book.asks = {} THEN Nothing
                         ELSE Some(Min(DOMAIN Book.asks))
            /\ IF msg.bid # Nothing /\ msg.ask # Nothing
               THEN msg.price # Nothing /\ 2 * msg.price[1] = msg.bid[1] + msg.ask[1]
               ELSE msg.price = Nothing

\* A depth message shows a book: its symbol and the best levels of both sides.
Reflects(msg, symbol, book) ==
    /\ msg.symbol = symbol
    /\ msg.stream_type = "depth"
    /\ BestLevelsFirst(msg.bids, book.bids, HigherPrice)
    /\ BestLevelsFirst(msg.asks, book.asks, LowerPrice)

\* The best bid is not below the best ask.
Crossed(book) ==
    /\ DOMAIN book.bids # {}
    /\ DOMAIN book.asks # {}
    /\ Max(DOMAIN book.bids) >= Min(DOMAIN book.asks)

\* C19: in subscribe_depth every applied snapshot or l2update produces exactly
\* one depth StreamMessage reflecting the orderbook state right after that
\* message, and messages of any other type produce none; a crossed book
\* (best bid >= best ask) is emitted as it is, neither suppressed nor corrected.
C19_OneMessagePerAppliedFrame ==
    FrameHandled =>
        IF LastFrame.type \in {"snapshot", "l2update"}
        THEN ~caught =>
                /\ Len(yielded) = 1
                /\ Reflects(yielded[1], depth_symbol, Book)
                /\ Crossed(Book) =>
                       /\ yielded[1].bids[1][1] = Max(DOMAIN Book.bids)
                       /\ yielded[1].asks[1][1] = Min(DOMAIN Book.asks)
        ELSE /\ yielded = <<>>
             /\ _orderbooks = prev_orderbooks

\* An l2update that crosses the book has been applied and its message yielded.
C19_Witness ==
    /\ Applied("l2update")
    /\ ~Crossed(PrevBook)
    /\ Crossed(Book)
    /\ Len(yielded) = 1
    /\ yielded[1].bids[1][1] >= yielded[1].asks[1][1]

----------------------------------------------------------------------------
\* The connection loop of CoinbaseStreamProvider._stream_channel, one per
\* subscription, all on one provider object.

\* Largest number of failed attempts in a row that is counted for one loop.
MaxFailures == 12

\* Largest number of frames the feed writes for one subscription.
MaxSent == 3

\* self._max_reconnect_attempts
_max_reconnect_attempts == 10

\* The cap of wait_time, in seconds.
MaxWait == 60

RECURSIVE Pow2(_)
Pow2(n) == IF n = 0 THEN 1 ELSE 2 * Pow2(n - 1)

\* min(2 ** attempts, 60)
Backoff(attempts) == IF Pow2(attempts) < MaxWait THEN Pow2(attempts) ELSE MaxWait

\* The except clause of loop s, up to its sleep or its break; the socket the
\* loop was in, if any, is left and its unread frames with it.
Failed(s) ==
    /\ _connected' = FALSE
    /\ failures' = [failures EXCEPT ![s] = IF @ < MaxFailures THEN @ + 1 ELSE @]
    /\ socket' = [socket EXCEPT ![s] = <<>>]
    /\ IF _reconnect_attempts < _max_reconnect_attempts
       THEN /\ wait_time' = [wait_time EXCEPT ![s] = Backoff(_reconnect_attempts)]
            /\ chan_pc' = [chan_pc EXCEPT ![s] = "sleeping"]
       ELSE /\ chan_pc' = [chan_pc EXCEPT ![s] = "ended"]
            /\ UNCHANGED wait_time
    /\ UNCHANGED <<_reconnect_attempts, reachable, sent, delivered>>

\* ws_connect succeeds: the socket is stored and the attempts are reset.
Connects(s) ==
    /\ chan_pc[s] = "connecting"
    /\ reachable[s]
    /\ session' = "ClientSession"
    /\ websocket' = s
    /\ _connected' = TRUE
    /\ _reconnect_attempts' = 0
    /\ chan_pc' = [chan_pc EXCEPT ![s] = "streaming"]
    /\ failures' = [failures EXCEPT ![s] = 0]
    /\ socket' = [socket EXCEPT ![s] = <<>>]
    /\ UNCHANGED <<wait_time, reachable, sent, delivered>>
    /\ UNCHANGED outsideChannels

\* ws_connect raises.
ConnectFails(s) ==
    /\ chan_pc[s] = "connecting"
    /\ session' = "ClientSession"
    /\ Failed(s)
    /\ UNCHANGED websocket
    /\ UNCHANGED outsideChannels

\* The feed writes its next frame to the open socket of subscription s.
Sends(s) ==
    /\ chan_pc[s] = "streaming"
    /\ sent[s] < MaxSent
    /\ sent' = [sent EXCEPT ![s] = @ + 1]
    /\ socket' = [socket EXCEPT ![s] = Append(@, sent[s] + 1)]
    /\ UNCHANGED <<session, websocket, _connected, _reconnect_attempts, chan_pc,
                   wait_time, failures, reachable, delivered>>
    /\ UNCHANGED outsideChannels

\* The loop reading the newest unread frame of the socket first.
ReadsReversed(s) ==
    /\ delivered' = [delivered EXCEPT ![s] = Append(@, socket[s][Len(socket[s])])]
    /\ socket' = [socket EXCEPT ![s] = SubSeq(@, 1, Len(@) - 1)]

\* The loop reads the socket's first unread frame, a TEXT frame, and yields it.
Reads(s) ==
    /\ delivered' = [delivered EXCEPT ![s] = Append(@, Head(socket[s]))]
    /\ socket' = [socket EXCEPT ![s] = Tail(@)]

Receives(s) ==
    /\ chan_pc[s] = "streaming"
    /\ socket[s] # <<>>
    /\ Reads(s)
    /\ UNCHANGED <<session, websocket, _connected, _reconnect_attempts, chan_pc,
                   wait_time, failures, reachable, sent>>
    /\ UNCHANGED outsideChannels

\* send_json, the socket's iteration or json.loads raises.
StreamRaises(s) ==
    /\ chan_pc[s] = "streaming"
    /\ Failed(s)
    /\ UNCHANGED <<session, websocket>>
    /\ UNCHANGED outsideChannels

\* A CLOSED or ERROR frame arrives, or the socket's iteration ends: the loop
\* leaves the socket and goes round again.
StreamCloses(s) ==
    /\ chan_pc[s] = "streaming"
    /\ chan_pc' = [chan_pc EXCEPT ![s] = "connecting"]
    /\ socket' = [socket EXCEPT ![s] = <<>>]
    /\ UNCHANGED <<session, websocket, _connected, _reconnect_attempts, wait_time,
                   failures, reachable, sent, delivered>>
    /\ UNCHANGED outsideChannels

\* The sleep of loop s is over: the attempt is counted, the loop goes round.
WakesUp(s) ==
    /\ chan_pc[s] = "sleeping"
    /\ _reconnect_attempts' = _reconnect_attempts + 1
    /\ chan_pc' = [chan_pc EXCEPT ![s] = "connecting"]
    /\ wait_time' = [wait_time EXCEPT ![s] = 0]
    /\ UNCHANGED <<session, websocket, _connected, failures, reachable, sent, socket,
                   delivered>>
    /\ UNCHANGED outsideChannels

\* The places a loop can be cancelled at: the wait for a connection, the wait
\* for a frame (or the yield of one) and the backoff sleep.
Suspended == {"connecting", "streaming", "sleeping"}

\* From now on the feed refuses every connection of subscription s.
Unreachable(s) ==
    /\ reachable[s]
    /\ chan_pc[s] \in Suspended
    /\ reachable' = [reachable EXCEPT ![s] = FALSE]
    /\ UNCHANGED <<session, websocket, _connected, _reconnect_attempts, chan_pc,
                   wait_time, failures, sent, socket, delivered>>
    /\ UNCHANGED outsideChannels

\* A cancellation carried out by CoinbaseStreamProvider.disconnect: the socket
\* stored last in self.websocket and the session are closed, which ends the
\* socket of the subscription that stored it.
CancelByDisconnect(s) ==
    /\ chan_pc[s] \in Suspended
    /\ chan_pc' = [t \in Subscriptions |->
                      IF t = s THEN "cancelled"
                      ELSE IF t = websocket /\ chan_pc[t] = "streaming" THEN "connecting"
                      ELSE chan_pc[t]]
    /\ socket' = [t \in Subscriptions |->
                     IF t = s \/ t = websocket THEN <<>> ELSE socket[t]]
    /\ wait_time' = [wait_time EXCEPT ![s] = 0]
    /\ session' = None
    /\ websocket' = None
    /\ _connected' = FALSE
    /\ UNCHANGED <<_reconnect_attempts, failures, reachable, sent, delivered>>
    /\ UNCHANGED outsideChannels

\* The consumer of subscription s closes the generator or cancels its task:
\* GeneratorExit or CancelledError, neither an Exception, is raised at the
\* loop's suspension point, leaves the async with (closing the loop's own
\* socket) and passes the except clause by.
Cancel(s) ==
    /\ chan_pc[s] \in Suspended
    /\ chan_pc' = [chan_pc EXCEPT ![s] = "cancelled"]
    /\ socket' = [socket EXCEPT ![s] = <<>>]
    /\ wait_time' = [wait_time EXCEPT ![s] = 0]
    /\ UNCHANGED <<session, websocket, _connected, _reconnect_attempts, failures,
                   reachable, sent, delivered>>
    /\ UNCHANGED outsideChannels

\* A step of one loop's connection handling.
ConnectionStep(s) ==
    \/ Connects(s)
    \/ ConnectFails(s)
    \/ StreamRaises(s)
    \/ StreamCloses(s)
    \/ WakesUp(s)
    \/ Cancel(s)

\* Two subscriptions on one provider.
InitChannels ==
    RouterInit /\ BookInit /\ ChannelInit /\ KlineInit /\ FrameInit /\ ManyInit /\ FetcherInit

NextChannels == \E s \in Subscriptions : ConnectionStep(s)

SpecChannels == InitChannels /\ [][NextChannels]_vars

\* Two subscriptions on one provider and a feed that may go away for either:
\* an attempt under way comes to its end and a sleep ends.
NextOutage ==
    \/ NextChannels
    \/ \E s \in Subscriptions : Unreachable(s)

Progress ==
    \A s \in Subscriptions :
        /\ WF_vars(Connects(s) \/ ConnectFails(s))
        /\ WF_vars(WakesUp(s))

SpecOutage == InitChannels /\ [][NextOutage]_vars /\ Progress

\* One subscription on a provider, with the frames of its sockets.
InitDelivery ==
    /\ RouterInit /\ BookInit /\ ChannelState({"ticker_ETH-USD"})
    /\ KlineInit /\ FrameInit /\ ManyInit /\ FetcherInit

NextDelivery ==
    \/ NextChannels
    \/ \E s \in Subscriptions : Sends(s) \/ Receives(s)

SpecDelivery == InitDelivery /\ [][NextDelivery]_vars

----------------------------------------------------------------------------
\* Properties of the connection loop.

\* C20: in _stream_channel reconnect waits follow capped exponential backoff:
\* after the k-th consecutive failed attempt (k counted from 0 since the last
\* successful connect) the loop waits min(2^k, 60) seconds before the next
\* attempt, and once 10 reconnect attempts have been used up without a
\* successful connect it gives up and makes no further connection attempt.
C20_CappedBackoffThenGiveUp ==
    \A s \in Subscriptions :
        /\ chan_pc[s] = "sleeping" =>
               wait_time[s] = IF Pow2(failures[s] - 1) < 60
                              THEN Pow2(failures[s] - 1) ELSE 60
        /\ failures[s] > 10 => chan_pc[s] = "ended"
        /\ chan_pc[s] = "ended" => failures[s] = 11

\* The feed has gone away for subscription s while its loop has no socket.
CutOff(s) == ~reachable[s] /\ chan_pc[s] \in {"connecting", "sleeping"}

\* C21: if from some point on every connection attempt of a subscription
\* fails, the subscription's generator eventually ends, after the bounded
\* number of backoff waits; it ends by finishing normally (no exception is
\* raised to the consumer, no further message is yielded), and is_connected()
\* returns false afterwards.
C21_EndsWhenEveryAttemptFails ==
    \A s \in Subscriptions :
        /\ CutOff(s) ~> (chan_pc[s] \in {"ended", "cancelled"})
        /\ [](chan_pc[s] = "ended" => ~_connected)

Cancelled(s) == chan_pc[s] # "cancelled" /\ chan_pc'[s] = "cancelled"

\* C23: cancelling one consumer's iteration, at a message wait or during a
\* backoff sleep, closes that subscription's own socket and exits its
\* reconnect loop, and has no effect on the sibling subscriptions of the
\* provider: their sockets stay open, they keep receiving messages and their
\* orderbooks are untouched.
C23_CancelLeavesSiblingsAlone ==
    [][\A s \in Subscriptions :
          /\ Cancelled(s) =>
                /\ socket'[s] = <<>>
                /\ _orderbooks' = _orderbooks
                /\ \A t \in Subscriptions \ {s} :
                       /\ chan_pc'[t] = chan_pc[t]
                       /\ socket'[t] = socket[t]
                       /\ delivered'[t] = delivered[t]
                       /\ wait_time'[t] = wait_time[t]
          /\ chan_pc[s] = "cancelled" => chan_pc'[s] = "cancelled"]_vars

\* One subscription is cancelled and its sibling, whose socket the provider
\* stored last, is streaming.
C23_Witness ==
    \E s, t \in Subscriptions :
        /\ chan_pc[s] = "cancelled"
        /\ chan_pc[t] = "streaming"
        /\ websocket = t

----------------------------------------------------------------------------
\* The trade-to-candle aggregation of CoinbaseStreamProvider.subscribe_kline.

\* Largest number of trades one kline subscription is followed through.
MaxTrades == 3

\* The time of a feed message as the feed writes it, within one hour:
\* "....T..:mm:ssZ" or "....T..:mm:ss+00:00".
TimeText(minute, second, zone) == [minute |-> minute, second |-> second, zone |-> zone]

\* datetime.fromisoformat(text.replace('Z', '+00:00')), in seconds of the hour.
FromIsoFormat(text) == 60 * text.minute + text.second

\* timestamp.replace(second=0, microsecond=0)
StartOfMinute(timestamp) == timestamp - (timestamp % 60)

_interval_to_seconds(interval) ==
    CASE interval = "1m"  -> 60
      [] interval = "5m"  -> 300
      [] interval = "15m" -> 900
      [] interval = "30m" -> 1800
      [] interval = "1h"  -> 3600
      [] interval = "4h"  -> 14400
      [] interval = "1d"  -> 86400
      [] OTHER            -> 60

Match(time, price, size) ==
    [type |-> "match", time |-> time, price |-> price, size |-> size]

\* The match frames of the feed: trades half a minute apart, in two minutes
\* of one five-minute window and in the next window, at three prices.
Matches ==
    { Match(TimeText(t[1], t[2], t[3]), Dec(price, "00"), size) :
        t \in {<<0, 0, "Z">>, <<0, 30, "+00:00">>, <<1, 30, "Z">>, <<5, 0, "Z">>},
        price \in {99, 100, 101},
        size \in {Dec(1, ""), Dec(0, "5")} }

\* A match whose price is no number, and frames of the channel that are no
\* matches.
BadMatches == {Match(TimeText(0, 30, "Z"), Dec(100, "x"), Dec(1, ""))}
OtherMatchFrames == {[type |-> "subscriptions"], [type |-> "last_match"]}

KlineFrames == Matches \cup BadMatches \cup OtherMatchFrames

\* The trade of a well-formed match frame.
Trade(message) ==
    [timestamp |-> FromIsoFormat(message.time),
     price     |-> Float(message.price),
     volume    |-> Float(message.size)]

\* What is remembered of a trade: the trade and the number of the candle the
\* loop put it into (the candle that becomes the n-th bar).
Aggregated(trade, n) ==
    [timestamp |-> trade.timestamp,
     price     |-> trade.price,
     volume    |-> trade.volume,
     candle    |-> n]

\* The candle a trade opens.
NewCandle(candle_start, trade) ==
    [start  |-> candle_start,
     open   |-> trade.price,
     high   |-> trade.price,
     low    |-> trade.price,
     close  |-> trade.price,
     volume |-> trade.volume]

\* The candle after a further trade.
UpdatedCandle(candle, trade) ==
    [candle EXCEPT
        !.high   = IF trade.price > @ THEN trade.price ELSE @,
        !.low    = IF trade.price < @ THEN trade.price ELSE @,
        !.close  = trade.price,
        !.volume = @ + trade.volume]

\* The StreamMessage of a finished candle.
KlineMessage(symbol, candle) ==
    [symbol      |-> symbol,
     timestamp   |-> candle.start,
     open        |-> candle.open,
     high        |-> candle.high,
     low         |-> candle.low,
     close       |-> candle.close,
     volume      |-> candle.volume,
     provider    |-> ProviderName,
     stream_type |-> "kline"]

\* The symbol of the kline subscription.
KlineSymbol == _normalize_symbol("ethusd")

\* The matches channel reports trades in the order of their times.
InTimeOrder(message) ==
    IF trades = <<>>
    THEN TRUE
    ELSE trades[Len(trades)].timestamp <= FromIsoFormat(message.time)

\* The loop body of subscribe_kline for one frame of _stream_channel; the
\* subscription has no callback.
KlineFrame(message) ==
    /\ kline_pc = "streaming"
    /\ IF message.type # "match" \/ ~IsFloat(message.price) \/ ~IsFloat(message.size)
       THEN UNCHANGED <<current_candle, trades, bars>>
       ELSE /\ Len(trades) < MaxTrades
            /\ InTimeOrder(message)
            /\ LET trade == Trade(message)
                   candle_start == StartOfMinute(trade.timestamp)
               IN  IF current_candle = Nothing
                   THEN /\ current_candle' = Some(NewCandle(candle_start, trade))
                        /\ bars' = bars
                        /\ trades' = Append(trades, Aggregated(trade, Len(bars') + 1))
                   ELSE IF candle_start # current_candle[1].start
                   THEN /\ bars' = Append(bars, KlineMessage(KlineSymbol, current_candle[1]))
                        /\ current_candle' = Some(NewCandle(candle_start, trade))
                        /\ trades' = Append(trades, Aggregated(trade, Len(bars') + 1))
                   ELSE /\ current_candle' = Some(UpdatedCandle(current_candle[1], trade))
                        /\ bars' = bars
                        /\ trades' = Append(trades, Aggregated(trade, Len(bars') + 1))
    /\ UNCHANGED <<kline_interval, kline_pc>>
    /\ UNCHANGED outsideKline

\* _stream_channel ends (it gave up, or the consumer stopped): so does the loop.
KlineEnds ==
    /\ kline_pc = "streaming"
    /\ kline_pc' = "ended"
    /\ UNCHANGED <<kline_interval, current_candle, trades, bars>>
    /\ UNCHANGED outsideKline

InitKline ==
    /\ RouterInit /\ BookInit /\ ChannelInit /\ FrameInit /\ ManyInit /\ FetcherInit
    /\ \E interval \in Intervals : KlineState(interval)

NextKline ==
    \/ \E message \in KlineFrames : KlineFrame(message)
    \/ KlineEnds

SpecKline == InitKline /\ [][NextKline]_vars

----------------------------------------------------------------------------
\* Claims about the kline aggregation.

\* The bucket of the subscription's interval a time falls into.
Bucket(timestamp) == timestamp - (timestamp % _interval_to_seconds(kline_interval))

\* The trades after which the next trade falls into another bucket.
BucketChanges ==
    {i \in 1..(Len(trades) - 1) :
        Bucket(trades[i].timestamp) # Bucket(trades[i + 1].timestamp)}

\* C24: a bar is emitted exactly when a trade arrives whose bucket differs
\* from the bucket of the trades before it: there are as many bars as bucket
\* changes, none while the trades stay in one bucket, and no bar of the
\* bucket that is open, the end of the stream included.
C24_BarWhenBucketChanges ==
    /\ Len(bars) = Cardinality(BucketChanges)
    /\ trades # <<>> =>
           \A k \in DOMAIN bars :
               bars[k].timestamp # Bucket(trades[Len(trades)].timestamp)

----------------------------------------------------------------------------
\* DataStream._response_to_dataframe: provider rows to a polars DataFrame.

\* Largest number of rows in a response.
MaxRows == 3

\* The time values providers write, as texts of January 2024:
\* "2024-01-ddThh:00:00+oo:00", "2024-01-ddThh:00:00", "2024-01-dd", "n/a".
IsoWithOffset(day, hour, offset) ==
    [form |-> "datetime+offset", day |-> day, hour |-> hour, offset |-> offset]
IsoNaive(day, hour) ==
    [form |-> "datetime", day |-> day, hour |-> hour, offset |-> 0]
DateOnly(day) ==
    [form |-> "date", day |-> day, hour |-> 0, offset |-> 0]
NoTime == [form |-> "n/a", day |-> 0, hour |-> 0, offset |-> 0]

\* Texts with an offset: their order as texts is not the order of their
\* instants.
OffsetTexts ==
    {IsoWithOffset(1, 12, 5), IsoWithOffset(1, 10, 0), IsoWithOffset(2, 0, 0)}

TimeTexts == OffsetTexts \cup {IsoNaive(1, 11), DateOnly(1), NoTime}

\* str.strptime(pl.Datetime, format='%Y-%m-%dT%H:%M:%S%:z', strict=False) of
\* one value: the instant in hours of the month (UTC), or null where the text
\* does not match the format.
Strptime(text) ==
    IF text.form = "datetime+offset"
    THEN Some(24 * text.day + text.hour - text.offset)
    ELSE Nothing

\* col.lower().replace(' ', '_')
ColumnName(col) ==
    CASE col = "Date"      -> "date"
      [] col = "Datetime"  -> "datetime"
      [] col = "Open"      -> "open"
      [] col = "High"      -> "high"
      [] col = "Low"       -> "low"
      [] col = "Close"     -> "close"
      [] col = "Volume"    -> "volume"
      [] col = "Adj Close" -> "adj_close"
      [] OTHER             -> col

\* The names under which providers give the time of a row.
TimeNames == {"timestamp", "Date", "date", "Datetime"}

PriceNames(capitalised) ==
    IF capitalised
    THEN {"Open", "High", "Low", "Close", "Volume"}
    ELSE {"open", "high", "low", "close", "volume"}

RowShapes == {RowShape(time, capitalised) : time \in TimeNames, capitalised \in BOOLEAN}

\* The dict of one candle: the time under the provider's name and the five
\* numbers of a candle that closed at `close`, without the keys in `lacking`.
ProviderRow(shape, text, close, lacking) ==
    [col \in ({shape.time} \cup PriceNames(shape.capitalised)) \ lacking |->
        CASE col = shape.time       -> text
          [] ColumnName(col) = "open"    -> close
          [] ColumnName(col) = "high"    -> close + 1
          [] ColumnName(col) = "low"     -> close - 1
          [] ColumnName(col) = "close"   -> close
          [] ColumnName(col) = "volume"  -> 10]

\* The rows a provider of this shape can give: whole candles, a candle
\* without its close and a candle without its time.
ProviderRows(shape) ==
    {ProviderRow(shape, text, 5, {}) : text \in TimeTexts}
        \cup {ProviderRow(shape, IsoWithOffset(1, 10, 0), 7,
                          {IF shape.capitalised THEN "Close" ELSE "close"})}
        \cup {ProviderRow(shape, NoTime, 9, {shape.time})}

\* pl.DataFrame(): no columns, no rows.
EmptyFrame == [columns |-> {}, rows |-> <<>>]

\* pl.DataFrame(data) of a list of dicts: a column for every key, null where
\* a dict has no such key. The order of the columns is left out.
DataFrame(data) ==
    LET columns == UNION {DOMAIN data[i] : i \in DOMAIN data}
    IN  [columns |-> columns,
         rows    |-> [i \in DOMAIN data |->
                        [col \in columns |->
                            IF col \in DOMAIN data[i] THEN Some(data[i][col]) ELSE Nothing]]]

\* df.rename({col: col.lower().replace(' ', '_') for col in df.columns}), for
\* columns whose new names differ from one another.
Rename(frame) ==
    LET named == {ColumnName(col) : col \in frame.columns}
        Old(new) == CHOOSE col \in frame.columns : ColumnName(col) = new
    IN  [columns |-> named,
         rows    |-> [i \in DOMAIN frame.rows |->
                        [new \in named |-> frame.rows[i][Old(new)]]]]

\* df.with_columns(pl.col(col).str.strptime(...).alias('timestamp')), then
\* df.drop(col) if col is not 'timestamp'.
ParseTime(frame, col) ==
    LET columns == (frame.columns \ {col}) \cup {"timestamp"}
    IN  [columns |-> columns,
         rows    |-> [i \in DOMAIN frame.rows |->
                        [c \in columns |->
                            IF c # "timestamp"
                            THEN frame.rows[i][c]
                            ELSE IF frame.rows[i][col] = Nothing
                                 THEN Nothing
                                 ELSE Strptime(frame.rows[i][col][1])]]]

timestamp_cols == <<"timestamp", "date", "datetime">>

\* The loop over timestamp_cols: the first of them that is a column is parsed.
ParseFirstTime(frame) ==
    LET found == {k \in DOMAIN timestamp_cols : timestamp_cols[k] \in frame.columns}
    IN  IF found = {}
        THEN frame
        ELSE ParseTime(frame, timestamp_cols[CHOOSE k \in found : \A l \in found : k <= l])

\* The place of a row in an ascending sort: nulls come first.
SortKey(row) == IF row["timestamp"] = Nothing THEN 0 ELSE 1 + row["timestamp"][1]

Permutations(n) ==
    {p \in [1..n -> 1..n] : \A i, j \in 1..n : p[i] = p[j] => i = j}

\* A sort that leaves the rows where they are.
SortKeepingOrder(frame) == {frame}

\* df.sort('timestamp'): the frames it can return. polars does not promise
\* the order of rows with equal timestamps.
Sort(frame) ==
    LET n == Len(frame.rows)
    IN  {[columns |-> frame.columns,
          rows    |-> [i \in 1..n |-> frame.rows[p[i]]]] :
            p \in {q \in Permutations(n) :
                    \A i, j \in 1..n :
                        i < j => SortKey(frame.rows[q[i]]) <= SortKey(frame.rows[q[j]])}}

\* The frames _response_to_dataframe(response) can return.
_response_to_dataframe(resp) ==
    IF ~resp.success \/ resp.data = <<>>
    THEN {EmptyFrame}
    ELSE LET frame == ParseFirstTime(Rename(DataFrame(resp.data)))
         IN  IF "timestamp" \in frame.columns THEN Sort(frame) ELSE {frame}

\* The provider puts a further row into its response.
AddRow(shape, row) ==
    /\ df = Nothing
    /\ row_shape = shape
    /\ provider_response.success
    /\ Len(provider_response.data) < MaxRows
    /\ provider_response' =
           [provider_response EXCEPT !.data = Append(@, row)]
    /\ UNCHANGED <<row_shape, df>>
    /\ UNCHANGED outsideFrame

\* The provider reports a failure instead.
FetchFails ==
    /\ df = Nothing
    /\ provider_response.success
    /\ provider_response' = [provider_response EXCEPT !.success = FALSE]
    /\ UNCHANGED <<row_shape, df>>
    /\ UNCHANGED outsideFrame

\* get() converts the response.
ResponseToDataFrame ==
    /\ df = Nothing
    /\ \E frame \in _response_to_dataframe(provider_response) : df' = Some(frame)
    /\ UNCHANGED <<row_shape, provider_response>>
    /\ UNCHANGED outsideFrame

InitFrame ==
    /\ RouterInit /\ BookInit /\ ChannelInit /\ KlineInit /\ ManyInit /\ FetcherInit
    /\ \E shape \in RowShapes : FrameState(shape)

NextFrame ==
    \/ \E shape \in RowShapes : \E row \in ProviderRows(shape) : AddRow(shape, row)
    \/ FetchFails
    \/ ResponseToDataFrame

SpecFrame == InitFrame /\ [][NextFrame]_vars

----------------------------------------------------------------------------
\* Claims about _response_to_dataframe.

\* The response was successful and has been converted.
Converted == df # Nothing /\ provider_response.success

\* The rows handed in and the rows of the frame handed back.
GivenRows == provider_response.data
FrameRows == df[1].rows

\* The rows handed in that have a time.
Timed == {i \in DOMAIN GivenRows : row_shape.time \in DOMAIN GivenRows[i]}

\* The rows of the frame whose timestamp is not null.
Stamped ==
    IF "timestamp" \in df[1].columns
    THEN {i \in DOMAIN FrameRows : FrameRows[i]["timestamp"] # Nothing}
    ELSE {}

LowerCaseNames == {"timestamp", "open", "high", "low", "close", "volume"}

\* C26: rows whose time is under `Date`, `date` or `timestamp` come back with
\* one `timestamp` column and without the column as it was named, under
\* lower-case column names, in ascending order of their timestamps.
C26_OneTimestampColumnSorted ==
    (/\ Converted
     /\ Timed # {}
     /\ row_shape.time \in {"Date", "date", "timestamp"})
        => /\ "timestamp" \in df[1].columns
           /\ df[1].columns \cap {"Date", "date", "datetime"} = {}
           /\ df[1].columns \subseteq LowerCaseNames
           /\ Len(FrameRows) = Len(GivenRows)
           /\ \A i, j \in Stamped :
                  i < j => FrameRows[i]["timestamp"][1] <= FrameRows[j]["timestamp"][1]

\* C26 witness: capitalised rows under `Date` that were given latest first,
\* both with a time the parser reads, have been converted.
C26_Witness ==
    /\ Converted
    /\ row_shape = RowShape("Date", TRUE)
    /\ Len(GivenRows) = 2
    /\ Timed = {1, 2}
    /\ GivenRows[1]["Date"] = IsoWithOffset(2, 0, 0)
    /\ GivenRows[2]["Date"] = IsoWithOffset(1, 12, 5)
    /\ Stamped = {1, 2}

\* A row with its time (not "n/a") and its five numbers.
WellFormed(row) ==
    /\ PriceNames(row_shape.capitalised) \subseteq DOMAIN row
    /\ row_shape.time \in DOMAIN row
    /\ row[row_shape.time] # NoTime

\* C27: the frame holds the well-formed rows and none of the others.
C27_MalformedRowsDropped ==
    Converted =>
        Len(FrameRows) = Cardinality({i \in DOMAIN GivenRows : WellFormed(GivenRows[i])})

\* An ISO-8601 date and time, with or without an offset.
IsIsoInstant(text) == text.form \in {"datetime+offset", "datetime"}

\* C28: every row whose time is an ISO-8601 date and time, with or without
\* offset, is in the frame with a timestamp that is not null.
C28_IsoWithAndWithoutOffsetParsed ==
    Converted =>
        Cardinality(Stamped) >=
            Cardinality({i \in Timed : IsIsoInstant(GivenRows[i][row_shape.time])})

----------------------------------------------------------------------------
\* DataStream.get_many

\* Largest number of symbols in one get_many call.
MaxSymbols == 2

\* The lists of symbols get_many is called with; a symbol may be repeated.
SymbolLists ==
    UNION {[1..n -> {"AAPL", "MSFT"}] : n \in 0..MaxSymbols}

\* The dict of the n-th candle a provider of the router returns.
CandleRow(n) ==
    ProviderRow(RowShape("timestamp", FALSE), IsoWithOffset(n, 0, 0), 5, {})

\* The DataResponse as _response_to_dataframe reads it.
AsFetched(resp) ==
    [success |-> resp.success,
     data    |-> [i \in DOMAIN resp.data |-> CandleRow(resp.data[i])]]

\* get(symbol=symbol, start=start, end=end, interval=interval,
\* asset_type=asset_type) as get_many calls it: what it raised (None if it
\* returned), the DataResponse it converted and the frames it can return.
get(symbol, asset_type, oc) ==
    LET req == BuildRequest(<<symbol, None, None, "1d", asset_type>>, None)
        sel == _select_provider(req)
    IN  IF sel.raised
        THEN [raised |-> sel.error, response |-> NoResponse, frames |-> {}]
        ELSE LET res == _fetch_with_fallback(req, sel.name, oc)
             IN  IF res.raised # None
                 THEN [raised |-> res.raised, response |-> NoResponse, frames |-> {}]
                 ELSE [raised   |-> None,
                       response |-> res.response,
                       frames   |-> _response_to_dataframe(AsFetched(res.response))]

\* get_many(symbols, asset_type=asset_type) up to its loop.
GetMany(symbols, asset_type) ==
    /\ many_pc = "idle"
    /\ many_pc' = "fetching"
    /\ many_args' = Some([symbols |-> symbols, asset_type |-> asset_type])
    /\ fetched' = <<>>
    /\ results' = EmptyDict
    /\ UNCHANGED status_result
    /\ UNCHANGED outsideMany

\* How a get() ended: it raised, it converted a failure response, or it
\* converted a successful one.
Ended(got) ==
    IF got.raised # None THEN "raised"
    ELSE IF got.response.success THEN "fetched" ELSE "failed"

\* One round of the loop with an except clause that lets the exception go.
FetchSymbolNoCatch(oc) ==
    /\ many_pc = "fetching"
    /\ Len(fetched) < Len(many_args[1].symbols)
    /\ LET symbol == many_args[1].symbols[Len(fetched) + 1]
           got == get(symbol, many_args[1].asset_type, oc)
       IN  IF got.raised # None
           THEN /\ many_pc' = "raised"
                /\ fetched' = Append(fetched, [symbol |-> symbol, ended |-> Ended(got)])
                /\ results' = results
           ELSE \E frame \in got.frames :
                    /\ results' = Put(results, symbol, frame)
                    /\ fetched' = Append(fetched, [symbol |-> symbol, ended |-> Ended(got)])
                    /\ many_pc' = many_pc
    /\ UNCHANGED many_args
    /\ UNCHANGED status_result
    /\ UNCHANGED outsideMany

\* One round of the loop of get_many: the next symbol is fetched while the
\* providers do `oc`.
FetchSymbol(oc) ==
    /\ many_pc = "fetching"
    /\ Len(fetched) < Len(many_args[1].symbols)
    /\ LET symbol == many_args[1].symbols[Len(fetched) + 1]
           got == get(symbol, many_args[1].asset_type, oc)
       IN  IF got.raised # None
           THEN /\ results' = Put(results, symbol, EmptyFrame)
                /\ fetched' = Append(fetched, [symbol |-> symbol, ended |-> Ended(got)])
           ELSE \E frame \in got.frames :
                    /\ results' = Put(results, symbol, frame)
                    /\ fetched' = Append(fetched, [symbol |-> symbol, ended |-> Ended(got)])
    /\ UNCHANGED <<many_pc, many_args>>
    /\ UNCHANGED status_result
    /\ UNCHANGED outsideMany

\* The loop is over: return results.
GetManyReturns ==
    /\ many_pc = "fetching"
    /\ Len(fetched) = Len(many_args[1].symbols)
    /\ many_pc' = "returned"
    /\ UNCHANGED <<many_args, fetched, results>>
    /\ UNCHANGED status_result
    /\ UNCHANGED outsideMany

\* The DataStreams get_many is called on: with no provider, with one, with
\* the two that need no key.
InitMany ==
    /\ providers \in {r \in Registries : SeqToSet(r) \subseteq {"yfinance", "binance", "ibkr"}}
    /\ fallback_enabled \in BOOLEAN
    /\ default_provider \in DefaultProviders
    /\ pc = "idle"
    /\ request = NoRequest
    /\ primary = None
    /\ outcome = <<>>
    /\ calls = <<>>
    /\ response = NoResponse
    /\ exc = None
    /\ BookInit /\ ChannelInit /\ KlineInit /\ FrameInit /\ ManyInit /\ FetcherInit

NextMany ==
    \/ \E symbols \in SymbolLists, asset_type \in {"equity", "crypto"} :
            GetMany(symbols, asset_type)
    \/ \E oc \in [SeqToSet(providers) -> Outcomes] : FetchSymbol(oc)
    \/ GetManyReturns

SpecMany == InitMany /\ [][NextMany]_vars

----------------------------------------------------------------------------
\* Claims about get_many.

\* The symbols get_many was asked for.
Asked == many_args[1].symbols

\* The last round of the loop that fetched this symbol.
LastFetch(symbol) ==
    fetched[Max({i \in DOMAIN fetched : fetched[i].symbol = symbol})]

----------------------------------------------------------------------------
\* The legacy DataFetcher (services/data_fetcher.py).

\* self.default_providers
default_providers ==
    [equity         |-> "yfinance",
     stock          |-> "yfinance",
     etf            |-> "yfinance",
     index          |-> "yfinance",
     forex          |-> "yfinance",
     crypto         |-> "binance",
     cryptocurrency |-> "binance",
     economic       |-> "yfinance",
     bond           |-> "yfinance",
     commodity      |-> "yfinance"]

\* The DataRequests fetch_data is called with: the provider is omitted,
\* empty, registered by __init__, registered by add_provider, or unknown.
FetcherRequests ==
    [symbol     : {"AAPL", "BTCUSDT"},
     start_date : {"2024-01-01"},
     end_date   : {"2024-01-07"},
     interval   : {"1d"},
     asset_type : {"stock", "crypto", "Crypto", "nft"},
     provider   : {None, "", "yfinance", "binance", "custom", "nonexistent"}]

\* DataFetcher._select_provider
fetcher_select_provider(req) ==
    IF req.provider # None /\ req.provider # ""
    THEN req.provider
    ELSE LET asset_type == Lower(req.asset_type)
         IN  IF asset_type \in DOMAIN default_providers
             THEN default_providers[asset_type]
             ELSE "yfinance"

\* An error message as the words it is made of.
\* f"Provider '{provider_name}' not available"
NotAvailableError(provider_name) == <<"Provider", provider_name, "not", "available">>
\* f"Unexpected error: {str(e)}"
UnexpectedError == <<"Unexpected", "error:", "boom">>

\* words in text
Contains(text, words) ==
    \E k \in 0..(Len(text) - Len(words)) :
        \A i \in DOMAIN words : text[k + i] = words[i]

FailureResponse(req, provider_name, error) ==
    [symbol |-> req.symbol, provider |-> provider_name, data |-> <<>>,
     success |-> FALSE, error |-> error]

\* provider.fetch_timeseries(...) inside the try of fetch_data.
FetchFromProvider(req, provider_name, oc) ==
    CASE oc = "ok"    -> Part(<<Call(provider_name, req)>>,
                              ProviderResponse(provider_name, req.symbol, TRUE), None)
      [] oc = "fail"  -> Part(<<Call(provider_name, req)>>,
                              ProviderResponse(provider_name, req.symbol, FALSE), None)
      [] oc = "raise" -> Part(<<Call(provider_name, req)>>,
                              FailureResponse(req, provider_name, UnexpectedError), None)

\* fetch_data without its test of the registry: self.providers[provider_name]
\* raises KeyError.
fetch_data_unchecked(req, oc) ==
    LET provider_name == fetcher_select_provider(req)
    IN  IF provider_name \notin fetcher_providers
        THEN Part(<<>>, NoResponse, "KeyError")
        ELSE FetchFromProvider(req, provider_name, oc)

\* DataFetcher.fetch_data while the selected provider does `oc`: the
\* invocations made, the response returned, the exception raised.
fetch_data(req, oc) ==
    LET provider_name == fetcher_select_provider(req)
    IN  IF provider_name \notin fetcher_providers
        THEN Part(<<>>,
                  FailureResponse(req, provider_name, NotAvailableError(provider_name)),
                  None)
        ELSE FetchFromProvider(req, provider_name, oc)

\* add_provider(name, provider)
AddProvider(name) ==
    /\ fetcher_pc = "idle"
    /\ fetcher_providers' = fetcher_providers \cup {name}
    /\ UNCHANGED <<fetcher_pc, fetcher_request, fetcher_calls, fetcher_response>>
    /\ UNCHANGED outsideFetcher

\* A call of fetch_data(request).
FetchData(req, oc) ==
    /\ fetcher_pc = "idle"
    /\ LET res == fetch_data(req, oc)
       IN  /\ fetcher_pc' = IF res.raised = None THEN "returned" ELSE "raised"
           /\ fetcher_calls' = res.calls
           /\ fetcher_response' = res.response
    /\ fetcher_request' = req
    /\ UNCHANGED fetcher_providers
    /\ UNCHANGED outsideFetcher

\* The caller is done with the response.
FetcherDone ==
    /\ fetcher_pc \in {"returned", "raised"}
    /\ fetcher_pc' = "idle"
    /\ fetcher_request' = NoRequest
    /\ fetcher_calls' = <<>>
    /\ fetcher_response' = NoResponse
    /\ UNCHANGED fetcher_providers
    /\ UNCHANGED outsideFetcher

\* DataFetcher.__init__: yfinance is registered, binance unless its
\* construction raised.
InitFetcher ==
    /\ RouterInit /\ BookInit /\ ChannelInit /\ KlineInit /\ FrameInit /\ ManyInit
    /\ \E registered \in {{"yfinance"}, {"yfinance", "binance"}} : FetcherState(registered)

NextFetcher ==
    \/ AddProvider("custom")
    \/ \E req \in FetcherRequests, oc \in Outcomes : FetchData(req, oc)
    \/ FetcherDone

SpecFetcher == InitFetcher /\ [][NextFetcher]_vars

\* The provider fetch_data selected for the call is not registered.
Unregistered ==
    /\ fetcher_pc \in {"returned", "raised"}
    /\ fetcher_select_provider(fetcher_request) \notin fetcher_providers

\* C30: when the name DataFetcher._select_provider gives (an explicit
\* request.provider as it is) is not registered, fetch_data raises nothing
\* and returns success=false with empty data and an error that contains
\* 'not available', and no provider's fetch_timeseries is invoked.
C30_UnregisteredProviderNotAvailable ==
    /\ \A req \in FetcherRequests :
           req.provider \in {"custom", "nonexistent"}
               => fetcher_select_provider(req) = req.provider
    /\ Unregistered =>
           /\ fetcher_pc = "returned"
           /\ fetcher_response.success = FALSE
           /\ fetcher_response.data = <<>>
           /\ Contains(fetcher_response.error, <<"not", "available">>)
           /\ fetcher_calls = <<>>

\* C30 witness: fetch_data has returned for a request that names the
\* provider 'nonexistent'.
C30_Witness ==
    /\ Unregistered
    /\ fetcher_request.provider = "nonexistent"
    /\ fetcher_response.provider = "nonexistent"

----------------------------------------------------------------------------
\* CoinbaseStreamProvider.disconnect

\* disconnect(): the tasks in active_streams are cancelled and awaited, the
\* socket stored last and the session are closed, both are forgotten. The
\* loop that was reading the socket stored last finds it closed and goes
\* round; the other loops are left where they are.
Disconnect ==
    /\ ~disconnected
    /\ LET cancelled == {s \in active_streams : chan_pc[s] \in Suspended}
       IN  /\ chan_pc' = [s \in Subscriptions |->
                             IF s \in cancelled THEN "cancelled"
                             ELSE IF s = websocket /\ chan_pc[s] = "streaming"
                                  THEN "connecting"
                                  ELSE chan_pc[s]]
           /\ socket' = [s \in Subscriptions |->
                            IF s \in cancelled \/ s = websocket THEN <<>> ELSE socket[s]]
           /\ wait_time' = [s \in Subscriptions |->
                               IF s \in cancelled THEN 0 ELSE wait_time[s]]
    /\ _connected' = FALSE
    /\ websocket' = None
    /\ session' = None
    /\ disconnected' = TRUE
    /\ UNCHANGED <<_reconnect_attempts, failures, reachable, sent, delivered,
                   active_streams>>
    /\ UNCHANGED <<bookVars, outsideStreams>>

\* Two subscriptions on one provider, each a task in active_streams or
\* consumed by its caller directly.
InitDisconnect ==
    /\ RouterInit /\ BookInit /\ KlineInit /\ FrameInit /\ ManyInit /\ FetcherInit
    /\ LoopState(Subscriptions)
    /\ active_streams \in SUBSET Subscriptions

NextDisconnect ==
    \/ NextChannels
    \/ Disconnect

SpecDisconnect == InitDisconnect /\ [][NextDisconnect]_vars

\* C31: once disconnect() has returned the provider holds no session and no
\* socket and is_connected() is false, and so it stays.
C31_StaysDisconnected ==
    disconnected => (session = None /\ websocket = None /\ ~_connected)

\* The loop of subscription s loses its socket without being cancelled.
LosesSocket(s) ==
    chan_pc[s] = "streaming" /\ chan_pc'[s] \notin {"streaming", "cancelled"}

\* C32: a loop that loses its socket, however the closure shows up, sleeps
\* the backoff time (or gives up at the limit) before it connects again, and
\* every sleep is counted as an attempt.
C32_EveryClosureBacksOff ==
    [][\A s \in Subscriptions :
           /\ LosesSocket(s) => chan_pc'[s] \in {"sleeping", "ended"}
           /\ (chan_pc[s] = "sleeping" /\ chan_pc'[s] = "connecting")
                  => _reconnect_attempts' = _reconnect_attempts + 1]_vars

\* C33: the attempts a loop is charged with are its own: while it waits or
\* is about to connect, the count it will be tested against is the number of
\* its own failures since its own last successful connect, whatever the
\* other subscription's loop has done.
C33_OwnAttemptsOnly ==
    \A s \in Subscriptions :
        /\ chan_pc[s] = "sleeping" => _reconnect_attempts = failures[s] - 1
        /\ chan_pc[s] = "connecting" => _reconnect_attempts = failures[s]

----------------------------------------------------------------------------
\* Several tasks with depth subscriptions on one provider.

\* The frames the feed sends to the depth subscriptions of the tasks.
\* stream_id of subscribe_depth: f"depth_{symbol}".
DepthStreamId(symbol) == <<"depth", symbol>>

\* self.callbacks.get(stream_id, [])
Registered_callbacks(stream_id) ==
    IF stream_id \in DOMAIN callbacks THEN callbacks[stream_id] ELSE <<>>

\* BaseStreamProvider.add_callback(stream_id, callback)
add_callback(stream_id, callback) ==
    Put(callbacks, stream_id, Append(Registered_callbacks(stream_id), callback))

\* BaseStreamProvider._notify_callbacks(stream_id, message): the callbacks it
\* invokes, in order.
_notify_callbacks(stream_id) == Registered_callbacks(stream_id)

TaskFrames ==
    { Snapshot(ScenarioBids, ScenarioAsks),
      L2Update(<<<<"buy", Dec(100, ""), Dec(0, "")>>>>),
      L2Update(<<<<"sell", Dec(102, ""), Dec(0, "5")>>>>),
      [type |-> "heartbeat"] }

\* The task has now written the book of the symbol.
Written(symbol, task) ==
    Put(writers, symbol,
        (IF symbol \in DOMAIN writers THEN writers[symbol] ELSE {}) \cup {task})

\* get_orderbook_snapshot(symbol): self._orderbooks.get(symbol)
get_orderbook_snapshot(symbol) ==
    LET normalised == _normalize_symbol(symbol)
    IN  IF normalised \in DOMAIN _orderbooks
        THEN Some(_orderbooks[normalised])
        ELSE Nothing

\* A task starts subscribe_depth(symbol): up to the first wait for a frame.
TaskSubscribes(task, symbol, with_callback) ==
    /\ ~disconnected
    /\ depth_pc[task] = "none"
    /\ depth_pc' = [depth_pc EXCEPT ![task] = "running"]
    /\ depth_of' = [depth_of EXCEPT ![task] = _normalize_symbol(symbol)]
    /\ prev_orderbooks' = _orderbooks
    /\ _orderbooks' = Put(_orderbooks, _normalize_symbol(symbol),
                          [bids |-> EmptyDict, asks |-> EmptyDict])
    /\ writers' = Written(_normalize_symbol(symbol), task)
    /\ callbacks' = IF with_callback
                    THEN add_callback(DepthStreamId(_normalize_symbol(symbol)), task)
                    ELSE callbacks
    /\ notified' = <<>>
    /\ UNCHANGED <<depth_symbol, frames, yielded, caught>>
    /\ UNCHANGED <<channelVars, taskVars, outsideStreams>>

\* The subscribe_depth of a task receives a frame and handles it.
TaskFrame(task, message) ==
    /\ depth_pc[task] = "running"
    /\ Len(frames) < MaxFrames
    /\ LET done == HandleFrame(_orderbooks, depth_of[task], message)
       IN  /\ _orderbooks' = done.orderbooks
           /\ yielded' = done.yielded
           /\ caught' = done.caught
           /\ notified' = IF done.yielded = <<>> THEN <<>>
                          ELSE _notify_callbacks(DepthStreamId(depth_of[task]))
    /\ frames' = Append(frames, message)
    /\ prev_orderbooks' = _orderbooks
    /\ writers' = IF message.type \in {"snapshot", "l2update"}
                  THEN Written(depth_of[task], task)
                  ELSE writers
    /\ UNCHANGED <<depth_symbol, depth_of, depth_pc, callbacks>>
    /\ UNCHANGED <<channelVars, taskVars, outsideStreams>>

\* The task is cancelled, or closes the generator of its subscribe_depth, at
\* the wait for a frame: the generator has no finally clause.
TaskCancels(task) ==
    /\ depth_pc[task] = "running"
    /\ depth_pc' = [depth_pc EXCEPT ![task] = "cancelled"]
    /\ notified' = <<>>
    /\ UNCHANGED <<_orderbooks, depth_symbol, frames, prev_orderbooks, yielded, caught,
                   depth_of, writers, callbacks>>
    /\ UNCHANGED <<channelVars, taskVars, outsideStreams>>

InitTasks ==
    /\ RouterInit /\ BookInit /\ ChannelInit
    /\ KlineInit /\ FrameInit /\ ManyInit /\ FetcherInit

NextTasks ==
    \/ \E task \in Tasks, symbol \in SymbolArgs, with_callback \in BOOLEAN :
           TaskSubscribes(task, symbol, with_callback)
    \/ \E task \in Tasks, message \in TaskFrames : TaskFrame(task, message)
    \/ \E task \in Tasks : TaskCancels(task)
    \/ Disconnect

SpecTasks == InitTasks /\ [][NextTasks]_vars

\* C34: the book of a symbol is created, reset and written by one task only.
C34_SingleWriterPerSymbol ==
    \A symbol \in DOMAIN writers : Cardinality(writers[symbol]) <= 1

\* The tasks that have subscribed to the depth of the symbol.
Subscribers(symbol) ==
    {task \in Tasks : depth_pc[task] # "none" /\ depth_of[task] = _normalize_symbol(symbol)}

\* C35: get_orderbook_snapshot(symbol) returns None before any depth
\* subscription of the symbol, after its subscription is cancelled and after
\* the provider is disconnected; a subscription creates the book.
C35_BookDiscardedAfterUse ==
    \A symbol \in SymbolArgs :
        /\ Subscribers(symbol) = {} => get_orderbook_snapshot(symbol) = Nothing
        /\ (\E task \in Subscribers(symbol) : depth_pc[task] = "running")
               => get_orderbook_snapshot(symbol) # Nothing
        /\ (/\ Subscribers(symbol) # {}
            /\ \A task \in Subscribers(symbol) : depth_pc[task] = "cancelled")
               => get_orderbook_snapshot(symbol) = Nothing
        /\ disconnected => get_orderbook_snapshot(symbol) = Nothing

\* The tasks whose subscribe_depth is running under the stream_id.
Consuming(stream_id) ==
    {task \in Tasks : depth_pc[task] = "running" /\ DepthStreamId(depth_of[task]) = stream_id}

\* C36: every callback registered under a stream_id belongs to a running
\* subscription of that stream_id, and no callback of a cancelled
\* subscription is invoked.
C36_NoDanglingCallbacks ==
    /\ \A stream_id \in DOMAIN callbacks :
           SeqToSet(callbacks[stream_id]) \subseteq Consuming(stream_id)
    /\ \A task \in SeqToSet(notified) : depth_pc[task] = "running"

-----------------------------------------------------------------------------
\* DataStream: a caller that uses get, get_many and status one after another.

\* What a provider does when status() asks it: validate_connection and
\* supports_historical_options return, or one of them raises.
StatusOutcomes ==
    {[raises |-> FALSE, connected |-> TRUE, options |-> TRUE, historical |-> FALSE],
     [raises |-> FALSE, connected |-> FALSE, options |-> FALSE, historical |-> FALSE],
     [raises |-> TRUE]}

\* The entry status() makes for a provider.
StatusEntry(does) ==
    IF does.raises
    THEN [connected |-> FALSE, error |-> "str(e)"]
    ELSE [connected                   |-> does.connected,
          supports_options            |-> does.options,
          supports_historical_options |-> does.historical]

\* status() that takes the providers that are not connected out of the registry.
StatusDroppingUnconnected(does) ==
    /\ pc = "idle" /\ many_pc = "returned"
    /\ status_result' = Some([name \in SeqToSet(providers) |-> StatusEntry(does[name])])
    /\ providers' = SelectSeq(providers, LAMBDA name : StatusEntry(does[name]).connected)
    /\ UNCHANGED <<many_pc, many_args, fetched, results>>
    /\ UNCHANGED <<fallback_enabled, default_provider, pc, request, primary, outcome,
                   calls, response, exc>>
    /\ UNCHANGED <<bookVars, channelVars, taskVars, klineVars, frameVars, fetcherVars>>

\* status(): one entry per registered provider.
Status(does) ==
    /\ pc = "idle" /\ many_pc = "returned"
    /\ status_result' = Some([name \in SeqToSet(providers) |-> StatusEntry(does[name])])
    /\ UNCHANGED <<many_pc, many_args, fetched, results>>
    /\ UNCHANGED outsideMany

\* get() while no get_many is under way.
GetFirst(args, provider, oc) == many_pc = "idle" /\ Get(args, provider, oc)

\* get_many() once the caller is done with its get() calls.
GetManyNext(symbols, asset_type) == pc = "idle" /\ GetMany(symbols, asset_type)

NextCaller ==
    \/ \E args \in CallArgs, provider \in ExplicitProviders,
          oc \in [SeqToSet(providers) -> Outcomes] :
            GetFirst(args, provider, oc)
    \/ Done
    \/ \E symbols \in SymbolLists, asset_type \in {"equity", "crypto"} :
            GetManyNext(symbols, asset_type)
    \/ \E oc \in [SeqToSet(providers) -> Outcomes] : FetchSymbol(oc)
    \/ GetManyReturns
    \/ \E does \in [SeqToSet(providers) -> StatusOutcomes] : Status(does)

SpecCaller == InitMany /\ [][NextCaller]_vars

\* C37: no step of get, get_many or status changes the registered provider
\* names or their insertion order (the priority table is the fixed
\* _provider_priority).
C37_RegistryReadOnly == [][providers' = providers]_vars

\* Of two registered providers, get_many has fetched two symbols and returned,
\* and status() has reported a provider that raised.
C37_Witness ==
    /\ Len(providers) = 2
    /\ many_pc = "returned" /\ Len(fetched) = 2
    /\ status_result # Nothing
    /\ \E name \in SeqToSet(providers) : "error" \in DOMAIN status_result[1][name]

\* The sum of the volumes of the trades numbered in S.
RECURSIVE VolumeOf(_)
VolumeOf(S) ==
    IF S = {} THEN 0
    ELSE LET i == CHOOSE i \in S : TRUE
         IN  trades[i].volume + VolumeOf(S \ {i})

\* The trades the k-th bar was made from.
TradesOfBar(k) == {i \in DOMAIN trades : trades[i].candle = k}

\* The trades accumulated since the bucket of the k-th bar was opened, up to
\* the last trade of the bar.
TradesSinceBucketOpened(k) ==
    LET last == Max(TradesOfBar(k))
    IN  {i \in 1..last : Bucket(trades[i].timestamp) = Bucket(trades[last].timestamp)}

\* The bar summarises the trades numbered in S, a bucket starting at `start`.
Summarises(bar, S, start) ==
    /\ bar.open = trades[Min(S)].price
    /\ bar.close = trades[Max(S)].price
    /\ bar.high = Max({trades[i].price : i \in S})
    /\ bar.low = Min({trades[i].price : i \in S})
    /\ bar.volume = VolumeOf(S)
    /\ bar.timestamp = start
    /\ bar.low <= bar.open /\ bar.open <= bar.high
    /\ bar.low <= bar.close /\ bar.close <= bar.high

\* C38: every bar summarises exactly the trades accumulated since its bucket
\* was opened: open is the first price, close the last, high the maximum, low
\* the minimum, volume the sum of the sizes, timestamp the start of the
\* bucket; so low <= open, close <= high.
C38_BarSummarisesItsBucket ==
    \A k \in DOMAIN bars :
        Summarises(bars[k], TradesSinceBucketOpened(k),
                   Bucket(trades[Max(TradesOfBar(k))].timestamp))

----------------------------------------------------------------------------
\* Claims about frames that fail and frames that repeat.

\* side, price, size = change; float(price); float(size) all succeed.
WellFormedChange(change) ==
    Len(change) = 3 /\ IsFloat(change[2]) /\ IsFloat(change[3])

Malformed(changes) == {i \in DOMAIN changes : ~WellFormedChange(changes[i])}

\* The last frame was an l2update with a malformed change.
FailedUpdate ==
    FrameHandled /\ LastFrame.type = "l2update" /\ Malformed(LastFrame.changes) # {}

\* The frame before the last was an l2update with a malformed change.
AfterFailedUpdate ==
    /\ Subscribed /\ Len(frames) >= 2
    /\ frames[Len(frames) - 1].type = "l2update"
    /\ Malformed(frames[Len(frames) - 1].changes) # {}

\* The changes of the last frame before its first malformed one.
Preceding == SubSeq(LastFrame.changes, 1, Min(Malformed(LastFrame.changes)) - 1)

\* C39: when an l2update fails on a malformed change, the changes before it
\* remain applied and nothing else of the book changes, no depth message is
\* yielded, the exception ends in the except clause of the loop, and the
\* subscription takes the next frame.
C39_FailedUpdateKeepsEarlierChanges ==
    /\ (AfterFailedUpdate /\ LastFrame.type = "l2update" /\ Malformed(LastFrame.changes) = {})
           => (~caught /\ Len(yielded) = 1)
    /\ FailedUpdate =>
        /\ caught
        /\ yielded = <<>>
        /\ \A side \in BookSides : \A price \in PricesAround(Preceding) :
               LET touching == Touching(Preceding, side, price)
                   size == Float(Preceding[Max(touching)][3])
               IN  IF touching = {} THEN SameLevel(Book, PrevBook, side, price)
                   ELSE IF size = 0 THEN price \notin DOMAIN Book[side]
                   ELSE price \in DOMAIN Book[side] /\ Book[side][price] = size
        /\ \A symbol \in DOMAIN _orderbooks \ {depth_symbol} :
               _orderbooks[symbol] = prev_orderbooks[symbol]

\* An l2update has failed on its second change after adding a bid at a price
\* the book lacked.
C39_Witness ==
    /\ FailedUpdate
    /\ Preceding # <<>>
    /\ DOMAIN Book.bids # DOMAIN PrevBook.bids
    /\ DOMAIN PrevBook.bids # {}

\* An l2update has been applied right after one that failed.
C39_WitnessNext ==
    /\ AfterFailedUpdate
    /\ Applied("l2update")
    /\ LastFrame.changes # <<>>
    /\ Len(yielded) = 1

\* The last frame is a snapshot or an l2update and repeats the frame before it.
Duplicate ==
    /\ FrameHandled /\ Len(frames) >= 2
    /\ LastFrame = frames[Len(frames) - 1]
    /\ LastFrame.type \in {"snapshot", "l2update"}

\* C40: a snapshot or l2update that repeats the frame before it leaves every
\* orderbook as the first application left it, and is handled like the first:
\* unless it fails, it yields one depth message of the book.
C40_DuplicateFrameIsIdempotent ==
    Duplicate =>
        /\ _orderbooks = prev_orderbooks
        /\ ~caught => (Len(yielded) = 1 /\ Reflects(yielded[1], depth_symbol, Book))

\* An l2update that stores a size has been applied a second time to a book
\* that a snapshot filled.
C40_Witness ==
    /\ Duplicate
    /\ Applied("l2update")
    /\ frames[1].type = "snapshot"
    /\ Len(yielded) = 1
    /\ \E i \in DOMAIN LastFrame.changes :
           /\ Float(LastFrame.changes[i][3]) # 0
           /\ Float(LastFrame.changes[i][2]) \in DOMAIN Book[MapOfSide[LastFrame.changes[i][1]]]

====
